---- MODULE Spec2Model ----
(***************************************************************************)
(* A model of v2-auto (src/main.py): the supervisor of N worker loops      *)
(* (main / runner_task), one scripted browser session (run_once), the      *)
(* resilient click (hard_click) and the ad-overlay closer                  *)
(* (close_google_ads).  The browser is the environment: every browser      *)
(* call either returns or raises, chosen nondeterministically.             *)
(***************************************************************************)
EXTENDS Integers, Sequences, FiniteSets, TLC

\* ------------------------------------------------------------------------
\* Bounds of the model
\* ------------------------------------------------------------------------
\* Largest worker count entered at the prompt that the model explores.
MaxInstances == 2
\* Cap on the number of run_once calls started, over all workers.
MaxRuns == 2
\* Largest number of extra selectors (many_selectors) given to hard_click.
MaxManySelectors == 2
\* Number of elements on the page that close_google_ads scans.
MaxElements == 2
\* Largest number of ad elements (close elements and overlays) on the page
\* that the ad scan following a click of hard_click meets.
MaxAds == 1
\* Largest number of times the pointer strategy of hard_click (mouse move,
\* down, up) raises in one call.
MaxMouseFaults == 1
\* A hard_click call given fallback selectors is followed from a point at
\* which the page has shown nothing so far and at most this many rounds of
\* timed-out waits are left before the deadline.
MaxLateRounds == 1

\* ------------------------------------------------------------------------
\* Program constants
\* ------------------------------------------------------------------------
\* The script of run_once has ten click steps (src/main.py:579-649).
NumSteps == 10

\* MAX_WAIT, POLL_MS (milliseconds) and MAX_FIND_SEC (seconds), lines 23-25.
MAX_WAIT == 8000
POLL_MS == 100
MAX_FIND_SEC == 60

\* len(ad_close_selectors) (lines 68-134), len(overlay_selectors)
\* (lines 200-208) and max_attempts (line 138) of close_google_ads.
NumAdCloseSelectors == 54
NumOverlaySelectors == 7
max_attempts == 3

\* Python None, for a handle that is not set.
None == << >>

\* No exception in flight.
NoError == [type |-> "None", msg |-> ""]

\* The URL list read from urls.txt (non-blank, stripped lines).
Urls == {"http://a"}

\* Exceptions a browser call can raise inside run_once; str(e) is the message.
Errors == { [type |-> "TimeoutError", msg |-> "Timeout 8000ms exceeded"] }

\* str(e) of runner_task line 742.
Str(e) == e.msg

\* ------------------------------------------------------------------------
\* State
\* ------------------------------------------------------------------------
VARIABLES
  INSTANCES,     \* global INSTANCES, the worker count fixed by the prompt
  states,        \* states[w]: the InstanceState of worker w
  total_done,    \* nonlocal total_done of main
  pc,            \* pc[w]: the await at which runner_task w is suspended
  stepk,         \* stepk[w]: number of the script step being run
  url,           \* local url of runner_task
  results,       \* local results of run_once
  browser,       \* local browser of run_once (a handle or None)
  context,       \* local context of run_once
  page,          \* local page of run_once
  exc,           \* exception in flight while the finally block runs
  calls,         \* calls[w]: run_once calls made by worker w so far
  counts,        \* counts[w]: browser-library calls made in the current run
  openBrowsers,  \* browser instances alive in the environment
  openContexts,  \* browser contexts alive in the environment
  hc,            \* the hard_click call: its locals, its clock and its outcome
  ads,           \* the close_google_ads call: its locals and the page it scans
  fp,            \* random_profile: the random source and the profiles made
  boot,          \* main before the workers exist: urls.txt and the prompt
  wl,            \* the wait_for_load call: its position and the waits made
  sig,           \* main's Live loop and the shutdown it goes through
  live,          \* the table last handed to Live by make_dashboard
  run,           \* one run_once call followed through its script
  td             \* one finally block of run_once followed close by close

supVars == << INSTANCES, states, total_done, pc, stepk, url, results, browser,
              context, page, exc, calls, counts, openBrowsers, openContexts >>

\* What the runs of the workers, of a click and of an overlay scan leave
\* alone.
sideVars == << fp, boot, wl, sig, live, run, td >>

vars == << supVars, hc, ads, sideVars >>

Workers == 1 .. INSTANCES

\* InstanceState(id=i+1) with the dataclass defaults (lines 38-49; the two
\* timestamps started_at and last_duration are left out).
InstanceState(i) ==
  [ id |-> i, runs |-> 0, successes |-> 0, failures |-> 0,
    current_step |-> "idle", last_url |-> "", last_detail |-> "",
    status |-> "idle" ]

StepResult(s, st, d) == [ step |-> s, status |-> st, detail |-> d ]

\* StepResult("Done", "OK", f"Elapsed: {elapsed:.1f}s"), the time left out.
Done == StepResult("Done", "OK", "Elapsed")

RECURSIVE SumCalls(_, _)
SumCalls(f, S) ==
  IF S = {} THEN 0
  ELSE LET w == CHOOSE x \in S : TRUE IN f[w] + SumCalls(f, S \ {w})

\* run_once calls started so far by all workers (the model's cap).
TotalCalls == SumCalls(calls, Workers)

\* What the browser library saw of one run_once call: launches that
\* returned a browser, contexts created, the close() calls in order, and
\* completions of the finally block.
NoCounts == [ launched |-> 0, contexts |-> 0, closed |-> << >>, done |-> 0 ]

\* ------------------------------------------------------------------------
\* runner_task: the two arms of the try around run_once
\* ------------------------------------------------------------------------
\* A loop that shows the detail of the first entry of the list.
RunnerSuccessFirstDetail(s, res) ==
  [ s EXCEPT !.runs = @ + 1,
             !.successes = @ + 1,
             !.last_detail = IF Len(res) > 0 THEN res[1].detail ELSE "",
             !.status = "idle",
             !.current_step = "sleep 1s" ]

\* A loop that counts a run that returned as a run only.
RunnerSuccessRunOnly(s, res) ==
  [ s EXCEPT !.runs = @ + 1,
             !.last_detail = IF Len(res) > 0 THEN res[Len(res)].detail ELSE "",
             !.status = "idle",
             !.current_step = "sleep 1s" ]

\* Lines 731-736: normal return of run_once with the list res.
RunnerSuccess(s, res) ==
  [ s EXCEPT !.runs = @ + 1,
             !.successes = @ + 1,
             !.last_detail = IF Len(res) > 0 THEN res[Len(res)].detail ELSE "",
             !.status = "idle",
             !.current_step = "sleep 1s" ]

\* A loop that shows the restart as the current step after a failure.
RunnerFailureRelabels(s, e) ==
  [ s EXCEPT !.runs = @ + 1,
             !.failures = @ + 1,
             !.status = "error/restarting",
             !.current_step = "restarting",
             !.last_detail = Str(e) ]

\* A loop that counts the failure but not the run.
RunnerFailureLostRun(s, e) ==
  [ s EXCEPT !.failures = @ + 1,
             !.status = "error/restarting",
             !.last_detail = Str(e) ]

\* Lines 739-742: run_once raised e.
RunnerFailure(s, e) ==
  [ s EXCEPT !.runs = @ + 1,
             !.failures = @ + 1,
             !.status = "error/restarting",
             !.last_detail = Str(e) ]

\* A loop that calls run_once without showing that it runs.
RunnerBeginUnmarked(s, u) ==
  [ s EXCEPT !.current_step = "pick url", !.last_url = u ]

\* Lines 723-726: top of the while loop up to the call of run_once.
RunnerBegin(s, u) ==
  [ s EXCEPT !.status = "running", !.current_step = "pick url", !.last_url = u ]

\* A close() outside contextlib.suppress: its error replaces the outcome.
CloseErrorEscapes(pending, closeErr) == closeErr

\* contextlib.suppress(Exception) around a close(): the exception in flight
\* (pending) survives, the close error is dropped.
SuppressClose(pending, closeErr) == pending

\* page.goto that lets its exception leave run_once.
GotoOutcomeRaises(raised) ==
  IF raised THEN [type |-> "TimeoutError", msg |-> "Timeout 8000ms exceeded"]
  ELSE NoError

\* Lines 566-572: an exception of page.goto is swallowed.
GotoOutcome(raised) == NoError

\* One name for the objects of every worker's c-th run_once.
HandleOfCall(w, c) == << 1, c >>

\* A new object from the browser library (launch / new_context / new_page),
\* named by the call that created it: worker w's c-th run_once.
NewHandle(w, c) == << w, c >>

\* A finally block that closes the browser only together with a context.
ClosesDueSkipBrowser(ctx, br) ==
  IF ctx # None THEN << "context", "browser" >> ELSE << >>

\* Lines 655-660: the close() calls the finally block makes, in order,
\* given the locals context and browser.
ClosesDue(ctx, br) ==
  (IF ctx # None THEN << "context" >> ELSE << >>)
    \o (IF br # None THEN << "browser" >> ELSE << >>)

\* A finally block that appends the Done entry twice.
AfterClosesTwice(res) == Append(Append(res, Done), Done)

\* Line 662: the Done entry is appended once both close attempts are over.
AfterCloses(res) == Append(res, Done)

\* What a close() raises when it fails.
CloseError == [type |-> "Error", msg |-> "close failed"]

\* What the exit of `async with async_playwright()` (line 412) leaves alive
\* of the set S of handles when the run owned handle h.  The exit is code
\* of the Playwright library, not of this program; it is modelled from the
\* specification's release guarantee: "the browser instance and session are
\* released on every exit path (success, step failure, or unexpected fault)
\* via scoped acquisition/release -- teardown failures are swallowed, never
\* propagated".  So the exit ends what the run still holds and raises
\* nothing.
DriverStop(S, h) == S \ {h}

\* ------------------------------------------------------------------------
\* Actions of worker w (one per await at which the task can be suspended)
\* ------------------------------------------------------------------------
\* The finally block of worker w (lines 654-662) from its i-th close on, up
\* to its next await, with exception e in flight (NoError: `return
\* results`), result list res and library counts c: the i-th close that is
\* due is called; when none is left the Done entry is appended and the exit
\* of the async with block is awaited (line 412).
FinallyFrom(w, i, e, res, c) ==
  LET due == ClosesDue(context[w], browser[w]) IN
  /\ exc' = [exc EXCEPT ![w] = e]
  /\ IF i <= Len(due)
     THEN /\ pc' = [pc EXCEPT ![w] = "close_" \o due[i]]
          /\ counts' = [counts EXCEPT
                          ![w] = [c EXCEPT !.closed = Append(@, due[i])]]
          /\ results' = [results EXCEPT ![w] = res]
     ELSE /\ pc' = [pc EXCEPT ![w] = "driver_stop"]
          /\ counts' = [counts EXCEPT ![w] = [c EXCEPT !.done = @ + 1]]
          /\ results' = [results EXCEPT ![w] = AfterCloses(res)]

\* The run leaves the try block with exception e (NoError for `return
\* results`), InstanceState s and result list res: control moves into the
\* finally block, up to its first await.
EnterFinally(w, s, e, res) ==
  /\ FinallyFrom(w, 1, e, res, counts[w])
  /\ states' = [states EXCEPT ![w] = s]
  /\ UNCHANGED << total_done, stepk, browser, context, page, openBrowsers,
                  openContexts >>

\* while True: ... results = await run_once(...)   (lines 722-730, 410-412)
RunnerStart(w) ==
  /\ pc[w] = "top"
  /\ TotalCalls < MaxRuns
  /\ \E u \in Urls :
       /\ states' = [states EXCEPT ![w] = RunnerBegin(@, u)]
       /\ url' = [url EXCEPT ![w] = u]
  /\ calls' = [calls EXCEPT ![w] = @ + 1]
  /\ pc' = [pc EXCEPT ![w] = "playwright"]
  /\ UNCHANGED << INSTANCES, total_done, stepk, results, browser, context,
                  page, exc, counts, openBrowsers, openContexts >>

\* async with async_playwright() as p: the driver starts or fails to
\* (line 412); on failure nothing of the try/finally has been entered and
\* the exception reaches the except arm of runner_task.
PlaywrightStart(w) ==
  /\ pc[w] = "playwright"
  /\ \/ /\ states' = [states EXCEPT ![w].current_step = "launching"]
        /\ pc' = [pc EXCEPT ![w] = "launch"]
     \/ \E e \in Errors :
          /\ states' = [states EXCEPT ![w] = RunnerFailure(@, e)]
          /\ pc' = [pc EXCEPT ![w] = "sleep_err"]
  /\ UNCHANGED << INSTANCES, total_done, stepk, url, results, browser, context,
                  page, exc, calls, counts, openBrowsers, openContexts >>

\* The browser comes up: browser = await p.chromium.launch(...)
Launched(w) ==
  /\ browser' = [browser EXCEPT ![w] = NewHandle(w, calls[w])]
  /\ openBrowsers' = openBrowsers \cup {NewHandle(w, calls[w])}
  /\ counts' = [counts EXCEPT ![w].launched = @ + 1]
  /\ pc' = [pc EXCEPT ![w] = "session"]
  /\ UNCHANGED << INSTANCES, states, total_done, stepk, url, results, context,
                  page, exc, calls, openContexts >>

\* First launch attempt (lines 418-449).
Launch(w) ==
  /\ pc[w] = "launch"
  /\ \/ Launched(w)
     \/ /\ pc' = [pc EXCEPT ![w] = "relaunch"]
        /\ UNCHANGED << INSTANCES, states, total_done, stepk, url, results,
                        browser, context, page, exc, calls, counts,
                        openBrowsers, openContexts >>

\* A second attempt that, when it raises, starts over with the first.
RelaunchAgain(w) ==
  /\ pc[w] = "relaunch"
  /\ \/ Launched(w)
     \/ /\ pc' = [pc EXCEPT ![w] = "launch"]
        /\ UNCHANGED << INSTANCES, states, total_done, stepk, url, results,
                        browser, context, page, exc, calls, counts,
                        openBrowsers, openContexts >>

\* Second launch attempt, in the except arm (lines 450-480).
Relaunch(w) ==
  /\ pc[w] = "relaunch"
  /\ \/ Launched(w)
     \/ /\ \E e \in Errors :
             EnterFinally(w, states[w], e, results[w])
        /\ UNCHANGED << INSTANCES, url, calls >>

\* fp = random_profile(); context = await browser.new_context(...)
\* (lines 482-501): the context is created, or the call raises.
NewContext(w) ==
  /\ pc[w] = "session"
  /\ \/ /\ context' = [context EXCEPT ![w] = NewHandle(w, calls[w])]
        /\ openContexts' = openContexts \cup {NewHandle(w, calls[w])}
        /\ counts' = [counts EXCEPT ![w].contexts = @ + 1]
        /\ pc' = [pc EXCEPT ![w] = "new_page"]
        /\ UNCHANGED << states, total_done, stepk, results, browser, page,
                        exc, openBrowsers >>
     \/ \E e \in Errors : EnterFinally(w, states[w], e, results[w])
  /\ UNCHANGED << INSTANCES, url, calls >>

\* await context.add_init_script(...) twice and page = await
\* context.new_page() (lines 504-545): the page is created, or one of the
\* three calls raises.
NewPage(w) ==
  /\ pc[w] = "new_page"
  /\ \/ /\ page' = [page EXCEPT ![w] = NewHandle(w, calls[w])]
        /\ pc' = [pc EXCEPT ![w] = "evaluate"]
        /\ UNCHANGED << states, total_done, stepk, results, browser, context,
                        exc, counts, openBrowsers, openContexts >>
     \/ \E e \in Errors : EnterFinally(w, states[w], e, results[w])
  /\ UNCHANGED << INSTANCES, url, calls >>

\* await page.evaluate(...) and state.current_step = "open url" (lines
\* 548-565): the script runs in the page, or the call raises.
PageEvaluate(w) ==
  /\ pc[w] = "evaluate"
  /\ \/ /\ states' = [states EXCEPT ![w].current_step = "open url"]
        /\ pc' = [pc EXCEPT ![w] = "goto"]
        /\ UNCHANGED << total_done, stepk, results, browser, context, page,
                        exc, counts, openBrowsers, openContexts >>
     \/ \E e \in Errors : EnterFinally(w, states[w], e, results[w])
  /\ UNCHANGED << INSTANCES, url, calls >>

\* state.current_step = f"step {k}" / StepResult(f"Step {k}", ...)
StepLabel(k) == "step " \o ToString(k)
StepName(k) == "Step " \o ToString(k)

\* The detail of the StepResult of step k (lines 584-649).
StepDetail(k) == IF k = NumSteps THEN "Waited 5s before click" ELSE ""

\* page.goto, wait_for_load and the Open URL entry (lines 566-574), up to
\* the await of close_google_ads of line 577.  wait_for_load returns
\* normally whatever the page does.
Goto(w) ==
  /\ pc[w] = "goto"
  /\ \E raised \in BOOLEAN :
       IF GotoOutcome(raised) = NoError
       THEN /\ results' = [results EXCEPT ![w] =
                             Append(@, StepResult("Open URL", "OK", url[w]))]
            /\ pc' = [pc EXCEPT ![w] = "open_ads"]
            /\ UNCHANGED << states, total_done, stepk, browser, context, page,
                            exc, counts, openBrowsers, openContexts >>
       ELSE EnterFinally(w, states[w], GotoOutcome(raised), results[w])
  /\ UNCHANGED << INSTANCES, url, calls >>

\* close_google_ads of line 577 returns (it never raises) and the label of
\* step 1 is set (line 580).
OpenAds(w) ==
  /\ pc[w] = "open_ads"
  /\ states' = [states EXCEPT ![w].current_step = StepLabel(1)]
  /\ stepk' = [stepk EXCEPT ![w] = 1]
  /\ pc' = [pc EXCEPT ![w] = "step"]
  /\ UNCHANGED << INSTANCES, total_done, url, results, browser, context, page,
                  exc, calls, counts, openBrowsers, openContexts >>

\* Step k of the script: close_google_ads, hard_click, wait_for_load and the
\* StepResult (lines 579-649).  hard_click returns or raises e.
Step(w) ==
  /\ pc[w] = "step"
  /\ LET k == stepk[w]
         r == StepResult(StepName(k), "OK", StepDetail(k))
     IN
     \/ /\ k < NumSteps
        /\ results' = [results EXCEPT ![w] = Append(@, r)]
        /\ states' = [states EXCEPT ![w].current_step = StepLabel(k + 1)]
        /\ stepk' = [stepk EXCEPT ![w] = k + 1]
        /\ UNCHANGED << total_done, pc, browser, context, page, exc,
                        openBrowsers, counts, openContexts >>
     \/ /\ k = NumSteps
        /\ EnterFinally(w, [states[w] EXCEPT !.current_step = "closing"],
                        NoError, Append(results[w], r))
     \/ \E e \in Errors : EnterFinally(w, states[w], e, results[w])
  /\ UNCHANGED << INSTANCES, url, calls >>

\* The exception in flight after a close() that raises (raised) or
\* returns, where the close is attempted only if it is due.
AfterClose(pending, due, raised) ==
  IF due /\ raised THEN SuppressClose(pending, CloseError) ELSE pending

\* with contextlib.suppress(Exception): await context.close() (lines
\* 655-657): the close returns or raises, and the finally block goes on.
ContextClose(w) ==
  /\ pc[w] = "close_context"
  /\ \E raised \in BOOLEAN :
       /\ FinallyFrom(w, Len(counts[w].closed) + 1,
                      AfterClose(exc[w], TRUE, raised), results[w], counts[w])
       /\ openContexts' = IF raised THEN openContexts
                          ELSE openContexts \ {context[w]}
  /\ UNCHANGED << INSTANCES, states, total_done, stepk, url, browser, context,
                  page, calls, openBrowsers >>

\* with contextlib.suppress(Exception): await browser.close() (lines
\* 658-660): the close returns, ending the browser and its contexts, or
\* raises, and the finally block goes on.
BrowserClose(w) ==
  /\ pc[w] = "close_browser"
  /\ \E raised \in BOOLEAN :
       /\ FinallyFrom(w, Len(counts[w].closed) + 1,
                      AfterClose(exc[w], TRUE, raised), results[w], counts[w])
       /\ openBrowsers' = IF raised THEN openBrowsers
                          ELSE openBrowsers \ {browser[w]}
       /\ openContexts' = IF raised THEN openContexts
                          ELSE openContexts \ {context[w]}
  /\ UNCHANGED << INSTANCES, states, total_done, stepk, url, browser, context,
                  page, calls >>

\* The end of run_once: the exit of the async with block has stopped the
\* driver (line 412) and the arm of runner_task receives the outcome, the
\* list or the exception, and runs up to its sleep (lines 731-737,
\* 738-744).
LeaveRunOnce(w) ==
  /\ pc[w] = "driver_stop"
  /\ exc[w] \in Errors \cup {NoError}
  /\ openBrowsers' = DriverStop(openBrowsers, browser[w])
  /\ openContexts' = DriverStop(openContexts, context[w])
  /\ browser' = [browser EXCEPT ![w] = None]
  /\ context' = [context EXCEPT ![w] = None]
  /\ page' = [page EXCEPT ![w] = None]
  /\ exc' = [exc EXCEPT ![w] = NoError]
  /\ stepk' = [stepk EXCEPT ![w] = 0]
  /\ IF exc[w] = NoError
     THEN /\ states' = [states EXCEPT ![w] = RunnerSuccess(@, results[w])]
          /\ total_done' = total_done + 1
          /\ pc' = [pc EXCEPT ![w] = "sleep_ok"]
     ELSE /\ states' = [states EXCEPT ![w] = RunnerFailure(@, exc[w])]
          /\ total_done' = total_done
          /\ pc' = [pc EXCEPT ![w] = "sleep_err"]
  /\ UNCHANGED << INSTANCES, url, results, calls, counts >>

\* A loop that goes on after a success only.
SleepDoneAfterSuccessOnly(w) ==
  /\ pc[w] = "sleep_ok"
  /\ pc' = [pc EXCEPT ![w] = "top"]
  /\ counts' = [counts EXCEPT ![w] = NoCounts]
  /\ results' = [results EXCEPT ![w] = << >>]
  /\ UNCHANGED << INSTANCES, states, total_done, stepk, url, browser,
                  context, page, exc, calls, openBrowsers, openContexts >>

\* await asyncio.sleep(1) / asyncio.sleep(0.5) is over: next iteration.
SleepDone(w) ==
  /\ pc[w] \in {"sleep_ok", "sleep_err"}
  /\ pc' = [pc EXCEPT ![w] = "top"]
  /\ counts' = [counts EXCEPT ![w] = NoCounts]
  /\ results' = [results EXCEPT ![w] = << >>]
  /\ UNCHANGED << INSTANCES, states, total_done, stepk, url, browser,
                  context, page, exc, calls, openBrowsers, openContexts >>

\* ------------------------------------------------------------------------
\* The supervisor: main after the prompt (lines 687-747)
\* ------------------------------------------------------------------------
\* ------------------------------------------------------------------------
\* hard_click (src/main.py:237-348)
\* ------------------------------------------------------------------------
\* Times are in milliseconds since the call began (time.time() at line 246).

\* Errors the page operations of hard_click raise: the PlaywrightTimeout of
\* wait_for_selector(timeout=POLL_MS), the timeout of a click with
\* timeout=MAX_WAIT, and an error that is no timeout (raised at once or
\* late).
PollTimeout == [type |-> "TimeoutError", msg |-> "Timeout 100ms exceeded"]
ClickTimeout == [type |-> "TimeoutError", msg |-> "Timeout 8000ms exceeded"]
OtherError == [type |-> "Error", msg |-> "Element is not attached to the DOM"]

\* The timeout of a page operation called without a timeout argument, as
\* scroll_into_view_if_needed of line 261: the 30 s default of the browser
\* library.
DefaultTimeout == 30000
ScrollTimeout == [type |-> "TimeoutError", msg |-> "Timeout 30000ms exceeded"]

\* element.click(timeout=2000, force=True) of line 155: its timeout.
AdClickMs == 2000

\* The passes of the for loop of line 141 that scan the page when p of them
\* closed an ad: a pass that closed none is the last (lines 186-194).
AdsScans(p) == IF p < max_attempts THEN p + 1 ELSE max_attempts

\* The time close_google_ads takes after a click, on a page that then holds
\* at most MaxAds ad elements, c of them close elements and o visible
\* overlays: the sleep of 0.5 s (line 65); in every pass the 2000 ms of
\* each click of a visible close element that waits out its timeout (line
\* 155; t such clicks over the passes); one second after each of the p
\* passes that closed an ad (line 188); and the default timeout of each
\* click of an overlay's close button that waits it out (line 219, no
\* timeout argument).  Every other operation of the scan answers at once.
AdsMs ==
  { 500 + 1000 * x.p + AdClickMs * x.t + DefaultTimeout * x.o :
      x \in { y \in [ c : 0 .. MaxAds, o : 0 .. MaxAds,
                      p : 0 .. max_attempts,
                      t : 0 .. MaxAds * max_attempts ] :
                /\ y.c + y.o <= MaxAds
                /\ y.p > 0 => y.c > 0
                /\ y.t <= y.c * AdsScans(y.p) } }

\* RuntimeError(f"Element not found/clickable: {description}") of line 348.
NotFound == [type |-> "RuntimeError", msg |-> "Element not found/clickable"]

\* What the page does to the target for the whole call: "hidden" is an
\* element that stays attached but not visible, "any" a page that may
\* answer each operation in every way.
PageKinds == {"hidden", "any"}

\* selectors = [selector] + (many_selectors or [])  (line 245): its length.
NumSelectors(many) == 1 + many

\* deadline = time.time() + MAX_FIND_SEC  (line 246).
Deadline(t) == t + MAX_FIND_SEC * 1000

\* A handler that keeps the first error it saw.
RecordFirst(last, e) == IF last = None THEN e ELSE last

\* last_err = e  (lines 275, 287, 313, 324, 338, 340, 344).
Record(last, e) == e

\* raise last_err or RuntimeError(...)  (line 348).
RaiseOf(last) == IF last # None THEN last ELSE NotFound

\* A loop that gives up when a round of MAX_WAIT would not fit any more.
WhileGivesUpEarly(t, d) == t + MAX_WAIT < d

\* while time.time() < deadline  (line 250).
WhileGoesOn(t, d) == t < d

\* The state of a hard_click call before it is made.
HcIdle ==
  [ pc |-> "idle", now |-> 0, deadline |-> 0, n |-> 1, double |-> FALSE,
    kind |-> "any", i |-> 0, last_err |-> None, observed |-> None,
    via |-> "", raised |-> None, adsCalls |-> 0, tried |-> << >>,
    delivered |-> 0, mouseFaults |-> 0 ]

\* hard_click(page, selector, description, many_selectors, double) is
\* called with `many` extra selectors on a page of kind k: lines 245-248.
HcCall(many, dbl, k) ==
  [ HcIdle EXCEPT !.pc = "while", !.deadline = Deadline(0),
                  !.n = NumSelectors(many), !.double = dbl, !.kind = k ]

\* The time a round takes in which the wait for each of the n selectors
\* times out: POLL_MS in the wait (line 257) and POLL_MS in its handler
\* (line 341) per selector, and POLL_MS at the end of the round (line 347).
RoundMs(n) == n * (POLL_MS + POLL_MS) + POLL_MS

\* The call of HcCall(many, dbl, k) after `rounds` rounds in each of which
\* every wait timed out: it is about to test the while condition, with
\* the timeout of the last wait as last_err.
HcPolled(many, dbl, k, rounds) ==
  [ HcCall(many, dbl, k) EXCEPT
      !.now = rounds * RoundMs(NumSelectors(many)),
      !.i = NumSelectors(many),
      !.last_err = PollTimeout, !.observed = PollTimeout ]

\* The numbers of such rounds after which the deadline has not passed and
\* at most MaxLateRounds more of them fit before it.
LateRounds(many) ==
  LET ms == RoundMs(NumSelectors(many))
  IN { r \in 1 .. ((MAX_FIND_SEC * 1000) \div ms) :
         /\ r * ms < Deadline(0)
         /\ Deadline(0) - r * ms <= MaxLateRounds * ms }

\* A for loop that searches the same selector again.
RetrySameSelector(h) == [h EXCEPT !.pc = "wait", !.tried = << >>]

\* The next selector of the for loop of line 251 or, after the last one,
\* the sleep of line 347.
NextSelector(h) ==
  IF h.i < h.n
  THEN [h EXCEPT !.i = @ + 1, !.pc = "wait", !.tried = << >>]
  ELSE [h EXCEPT !.pc = "sleep", !.tried = << >>]

\* The strategies of lines 264-338 in the order of the text, by the name
\* of the position at which each is attempted.
Strategies ==
  << "click_force", "click", "dblclick", "mouse", "page_click", "evaluate" >>

\* Strategy s is attempted on the element just found: h.tried lists the
\* strategies attempted on that element so far.
Attempt(h, s) == [h EXCEPT !.tried = Append(@, s)]

\* A strategy whose success is followed by the next strategy.
FallThrough(strategy) ==
  IF strategy = "click_force" THEN "click"
  ELSE IF strategy \in { "click", "dblclick" } THEN "box"
  ELSE IF strategy = "mouse" THEN "page_click"
  ELSE IF strategy = "page_click" THEN "evaluate"
  ELSE "returned"

\* `return` after the ad scan of a strategy that succeeded (lines 273, 285,
\* 311, 322, 336): where the call is next.
AfterSuccess(strategy) == "returned"

\* A strategy succeeded: the log line, asyncio.sleep(0.8), close_google_ads
\* (which takes adsMs) and return (lines 268-273 and alike).
Delivered(h, strategy, adsMs) ==
  [Attempt(h, strategy) EXCEPT
     !.via = strategy, !.now = @ + 800 + adsMs, !.adsCalls = @ + 1,
     !.delivered = @ + 1, !.pc = AfterSuccess(strategy)]

\* A handler that also runs the ad scan after the error it recorded.
FailedThenScan(h, e, ms) ==
  [h EXCEPT !.last_err = Record(@, e), !.observed = e, !.now = @ + ms + 500,
            !.adsCalls = @ + 1]

\* An operation raised e after ms milliseconds and the handler recorded it
\* (lines 274-275, 286-287, 312-313, 323-324, 337-346: `last_err = e` and
\* nothing else).
Failed(h, e, ms) ==
  [h EXCEPT !.last_err = Record(@, e), !.observed = e, !.now = @ + ms]

\* Line 250: the while condition; line 348 when it fails.
HcWhile ==
  /\ hc.pc = "while"
  /\ hc' = IF WhileGoesOn(hc.now, hc.deadline)
           THEN [hc EXCEPT !.i = 1, !.pc = "wait"]
           ELSE [hc EXCEPT !.raised = RaiseOf(hc.last_err), !.pc = "raised"]
  /\ UNCHANGED << supVars, ads, sideVars >>

\* The time a page operation takes is sampled: it answers at once or late.
\* A late answer of an operation called with timeout=MAX_WAIT comes one
\* poll interval before the timeout; a late answer of page.evaluate, which
\* has no timeout, comes after five seconds.
ClickMs == { 0, MAX_WAIT - POLL_MS }

EvaluateMs == { 0, 5000 }

\* What a click with timeout=MAX_WAIT does when it fails (lines 274, 286,
\* 323): it raises an error at once or late, or waits out its timeout.
ClickFailures ==
  { [ms |-> ms, err |-> OtherError] : ms \in ClickMs }
    \cup { [ms |-> MAX_WAIT, err |-> ClickTimeout] }

\* asyncio.sleep(random.uniform(0.05, 0.15)) of line 301 and
\* asyncio.sleep(random.uniform(0.05, 0.12)) of line 303: the least, the
\* middle and the greatest draw of each.
PauseMs == { 50, 100, 150 }

HoldMs == { 50, 85, 120 }

\* What scroll_into_view_if_needed of line 261 does: it returns, raises at
\* once, or waits out the default timeout; its error is dropped (line 262).
ScrollOutcomes ==
  { [ms |-> 0, err |-> None], [ms |-> 0, err |-> OtherError],
    [ms |-> DefaultTimeout, err |-> ScrollTimeout] }

\* Line 257: wait_for_selector(sel, timeout=POLL_MS, state="visible")
\* returns the element, at once or at the end of the timeout; or it
\* returns None and the loop goes on with the next selector (lines
\* 258-259); or it times out, or raises at once, into the handlers of
\* lines 339-346.
HcWaitForSelector ==
  /\ hc.pc = "wait"
  /\ \/ /\ hc.kind # "hidden"
        /\ \E ms \in {0, POLL_MS} :
             hc' = [hc EXCEPT !.now = @ + ms, !.pc = "scroll"]
     \/ /\ hc.kind # "hidden"
        /\ \E ms \in {0, POLL_MS} :
             hc' = NextSelector([hc EXCEPT !.now = @ + ms])
     \/ hc' = [Failed(hc, PollTimeout, POLL_MS) EXCEPT !.pc = "backoff"]
     \/ /\ hc.kind # "hidden"
        /\ hc' = [Failed(hc, OtherError, 0) EXCEPT !.pc = "backoff"]
  /\ UNCHANGED << supVars, ads, sideVars >>

\* Lines 260-263: await el.scroll_into_view_if_needed() inside try /
\* except Exception: pass.
HcScroll ==
  /\ hc.pc = "scroll"
  /\ \E scroll \in ScrollOutcomes :
       hc' = [hc EXCEPT !.now = @ + scroll.ms,
                        !.observed = IF scroll.err # None
                                     THEN scroll.err ELSE @,
                        !.pc = "click_force"]
  /\ UNCHANGED << supVars, ads, sideVars >>

\* Lines 341-342 and 345-346: await asyncio.sleep(POLL_MS / 1000) in the
\* handler of a wait that raised, then continue.
HcBackoff ==
  /\ hc.pc = "backoff"
  /\ hc' = NextSelector([hc EXCEPT !.now = @ + POLL_MS])
  /\ UNCHANGED << supVars, ads, sideVars >>

\* Line 347: await asyncio.sleep(POLL_MS / 1000) at the end of a round,
\* then the next test of the while condition.
HcSleep ==
  /\ hc.pc = "sleep"
  /\ hc' = [hc EXCEPT !.now = @ + POLL_MS, !.pc = "while"]
  /\ UNCHANGED << supVars, ads, sideVars >>

\* Lines 265-275, force=True then force=False: el.click(force=force,
\* timeout=MAX_WAIT) returns, raises, or waits out its timeout.
HcElementClick ==
  /\ hc.pc \in {"click_force", "click"}
  /\ \/ \E ms \in ClickMs : \E adsMs \in AdsMs :
          hc' = Delivered([hc EXCEPT !.now = @ + ms], hc.pc, adsMs)
     \/ \E f \in ClickFailures :
          hc' = [Failed(Attempt(hc, hc.pc), f.err, f.ms) EXCEPT
                   !.pc = IF hc.pc = "click_force" THEN "click"
                          ELSE IF hc.double THEN "dblclick" ELSE "box"]
  /\ UNCHANGED << supVars, ads, sideVars >>

\* Lines 277-287: el.dblclick(timeout=MAX_WAIT), only if double.
HcDblclick ==
  /\ hc.pc = "dblclick"
  /\ \/ \E ms \in ClickMs : \E adsMs \in AdsMs :
          hc' = Delivered([hc EXCEPT !.now = @ + ms], "dblclick", adsMs)
     \/ \E f \in ClickFailures :
          hc' = [Failed(Attempt(hc, "dblclick"), f.err, f.ms)
                   EXCEPT !.pc = "box"]
  /\ UNCHANGED << supVars, ads, sideVars >>

\* Lines 289-293: el.bounding_box() returns a box, returns None, or raises
\* (box = None, the error is dropped).
HcBoundingBox ==
  /\ hc.pc = "box"
  /\ \/ hc' = [hc EXCEPT !.pc = "mouse"]
     \/ hc' = [hc EXCEPT !.pc = "page_click"]
     \/ hc' = [hc EXCEPT !.observed = OtherError, !.pc = "page_click"]
  /\ UNCHANGED << supVars, ads, sideVars >>

\* Lines 294-313: mouse move, pause, down, hold, up; mouse.move raises at
\* once, mouse.down after the pause, mouse.up after the pause and the hold,
\* whatever the two draws were.  hc.mouseFaults counts the times one of
\* the three raised during the call, up to MaxMouseFaults.
HcMouse ==
  /\ hc.pc = "mouse"
  /\ \E pause \in PauseMs :
       \/ \E hold \in HoldMs : \E adsMs \in AdsMs :
            hc' = Delivered([hc EXCEPT !.now = @ + pause + hold], "mouse",
                            adsMs)
       \/ /\ hc.mouseFaults < MaxMouseFaults
          /\ \E ms \in { 0, pause } \cup { pause + hold : hold \in HoldMs } :
               hc' = [Failed(Attempt(hc, "mouse"), OtherError, ms)
                        EXCEPT !.pc = "page_click", !.mouseFaults = @ + 1]
  /\ UNCHANGED << supVars, ads, sideVars >>

\* Lines 315-324: page.click(sel, timeout=MAX_WAIT, force=True).
HcPageClick ==
  /\ hc.pc = "page_click"
  /\ \/ \E ms \in ClickMs : \E adsMs \in AdsMs :
          hc' = Delivered([hc EXCEPT !.now = @ + ms], "page_click", adsMs)
     \/ \E f \in ClickFailures :
          hc' = [Failed(Attempt(hc, "page_click"), f.err, f.ms)
                   EXCEPT !.pc = "evaluate"]
  /\ UNCHANGED << supVars, ads, sideVars >>

\* Lines 326-338: page.evaluate of the event dispatch (no timeout) returns
\* or raises, at once or late; after it the for loop goes on with the next
\* selector.
HcEvaluate ==
  /\ hc.pc = "evaluate"
  /\ \E ms \in EvaluateMs :
       \/ \E adsMs \in AdsMs :
            hc' = Delivered([hc EXCEPT !.now = @ + ms], "evaluate", adsMs)
       \/ hc' = NextSelector(Failed(Attempt(hc, "evaluate"), OtherError, ms))
  /\ UNCHANGED << supVars, ads, sideVars >>

\* ------------------------------------------------------------------------
\* close_google_ads (src/main.py:61-234)
\* ------------------------------------------------------------------------
\* The page holds elements 1 .. MaxElements in document order.  A "close"
\* element is matched by the ad-close selector number sel, an "overlay"
\* element by the overlay selector number sel.
Elements == 1 .. MaxElements

ElementKinds ==
  [ kind : {"close"}, sel : {1, NumAdCloseSelectors}, visible : BOOLEAN ]
    \cup [ kind : {"overlay"}, sel : {NumOverlaySelectors}, visible : BOOLEAN ]

\* The pages: the scan treats each element on its own, so of the pages
\* that differ in the order of their elements one is kept.
ElementRank(x) ==
  (IF x.kind = "overlay" THEN 4 ELSE IF x.sel = 1 THEN 0 ELSE 2)
    + (IF x.visible THEN 1 ELSE 0)

Pages ==
  { dom \in [Elements -> ElementKinds] :
      \A e \in Elements :
        e + 1 \in Elements => ElementRank(dom[e]) <= ElementRank(dom[e + 1]) }

\* Errors of the page operations of close_google_ads: a click that waits
\* out timeout=2000, and an error raised at once.
AdClickTimeout == [type |-> "TimeoutError", msg |-> "Timeout 2000ms exceeded"]

\* A handler that lets everything but a timeout through.
SwallowTimeoutsOnly(e) == IF e.type = "TimeoutError" THEN NoError ELSE e

\* except Exception: pass  (lines 160, 168, 181, 183, 185, 223, 225, 231):
\* the exception that leaves the handler.
Swallow(e) == NoError

\* A scan that clicks whatever the query returned.
ActivateAlways(visible) == TRUE

\* if is_visible:  (lines 152, 215).
ShouldActivate(visible) == visible

\* The elements of kind k that are visible on the page dom.
VisibleOf(dom, k) ==
  { e \in Elements : dom[e].kind = k /\ dom[e].visible }

\* What query_selector_all returns for selector number sel of the list of
\* kind k: the matching elements in document order, visible or not.
Matches(dom, k, sel) ==
  SelectSeq([e \in Elements |-> e],
            LAMBDA e : dom[e].kind = k /\ dom[e].sel = sel)

\* No close_google_ads call is being made.
AdsIdle ==
  [ pc |-> "idle", call |-> 0, attempt |-> 0, passes |-> 0,
    sel |-> 0, els |-> << >>, cur |-> 0,
    dom |-> [e \in Elements |->
               [kind |-> "close", sel |-> 1, visible |-> FALSE]],
    clicked |-> {}, left |-> {}, prevActed |-> FALSE, faults |-> {},
    appeared |-> FALSE, after |-> {}, raised |-> NoError,
    found_ad |-> FALSE ]

\* close_google_ads(page) is called on the page dom for the c-th time:
\* lines 63-65, up to the sleep.
AdsCall(a, dom, c) ==
  [ a EXCEPT !.pc = "settle", !.call = c, !.attempt = 0, !.passes = 0,
             !.sel = 0, !.els = << >>, !.cur = 0,
             !.dom = dom, !.prevActed = (a.clicked # {}),
             !.clicked = {}, !.faults = {}, !.found_ad = FALSE,
             !.after = {},
             !.left = { e \in Elements : dom[e].visible } ]

\* The call ends: with the exception e that reached the outer handler
\* (lines 231-234), or by falling off the end of the function.
AdsEnd(a, e) ==
  LET out == Swallow(e)
      b == [a EXCEPT !.els = << >>, !.cur = 0]
  IN IF out = NoError THEN [b EXCEPT !.pc = "returned"]
     ELSE [b EXCEPT !.pc = "raised", !.raised = out]

\* A page operation of the scan named scan raised e inside a handler
\* `except Exception: pass` after which the call is in state next: the
\* handler takes e, or e goes on to the outer handlers.
Caught(a, scan, e, next) ==
  IF Swallow(e) = NoError
  THEN [next EXCEPT !.faults = @ \cup {scan}]
  ELSE AdsEnd([a EXCEPT !.faults = @ \cup {scan}], e)

\* for attempt in range(max_attempts): found_ad = False, and the first
\* selector of the list (lines 140-143).
StartPass(a) ==
  [ a EXCEPT !.pc = "query", !.sel = 1, !.els = << >>, !.cur = 0,
             !.found_ad = FALSE ]

\* The first selector of overlay_selectors (lines 199-210).
StartOverlays(a) ==
  [ a EXCEPT !.pc = "oquery", !.sel = 1, !.els = << >>, !.cur = 0 ]

\* The for loop over ad_close_selectors goes on: with the next selector,
\* or after the last one with `if found_ad` (lines 143, 188-196): the
\* sleep when the pass closed something, the overlay scan when not.
AdsNextSelector(a) ==
  IF a.sel < NumAdCloseSelectors
  THEN [a EXCEPT !.pc = "query", !.sel = @ + 1, !.els = << >>, !.cur = 0]
  ELSE LET b == [a EXCEPT !.passes = @ + 1, !.els = << >>, !.cur = 0]
       IN IF b.found_ad THEN [b EXCEPT !.pc = "pause"]
          ELSE StartOverlays(b)

\* for element in elements (line 148): the next element of the list the
\* query returned, or the next selector.
AdsNextElement(a) ==
  IF a.els = << >> THEN AdsNextSelector(a)
  ELSE [a EXCEPT !.pc = "visible", !.cur = Head(a.els), !.els = Tail(a.els)]

\* for overlay in overlays (line 212): the next overlay of the list, the
\* next overlay selector, or the end of the function.
AdsNextOverlay(a) ==
  IF a.els # << >>
  THEN [a EXCEPT !.pc = "ovisible", !.cur = Head(a.els), !.els = Tail(a.els)]
  ELSE IF a.sel < NumOverlaySelectors
  THEN [a EXCEPT !.pc = "oquery", !.sel = @ + 1, !.cur = 0]
  ELSE AdsEnd(a, NoError)

\* The page after an activation of element e that returned: the element is
\* gone, or it stays visible.
AfterActivation(dom, e, gone) ==
  IF gone THEN [dom EXCEPT ![e].visible = FALSE] ELSE dom

\* found_ad = True; ads_closed += 1  (lines 156-157, 164-165, 176-177)
\* after one of the three click methods returned.
Activated(a, gone) ==
  [ a EXCEPT !.found_ad = TRUE, !.dom = AfterActivation(@, a.cur, gone) ]

\* Line 65: await asyncio.sleep(0.5); then ads_closed = 0, the first pass.
AdsSettle ==
  /\ ads.pc = "settle"
  /\ ads' = StartPass(ads)
  /\ UNCHANGED << supVars, hc, sideVars >>

\* Line 146: elements = await page.query_selector_all(selector) returns
\* the matches, or raises into the handler of line 185.
AdsQuery ==
  /\ ads.pc = "query"
  /\ \/ ads' = AdsNextElement(
                 [ads EXCEPT !.els = Matches(ads.dom, "close", ads.sel)])
     \/ ads' = Caught(ads, "close", OtherError, AdsNextSelector(ads))
  /\ UNCHANGED << supVars, hc, sideVars >>

\* Lines 151-152: is_visible = await element.is_visible() returns, or
\* raises into the handler of line 183.
AdsVisible ==
  /\ ads.pc = "visible"
  /\ \/ ads' = IF ShouldActivate(ads.dom[ads.cur].visible)
               THEN [ads EXCEPT !.pc = "click", !.clicked = @ \cup {ads.cur}]
               ELSE AdsNextElement(ads)
     \/ ads' = Caught(ads, "close", OtherError, AdsNextElement(ads))
  /\ UNCHANGED << supVars, hc, sideVars >>

\* Line 155: await element.click(timeout=2000, force=True) returns, or
\* raises into the handler of line 160.
AdsClick ==
  /\ ads.pc = "click"
  /\ \/ \E gone \in BOOLEAN : ads' = AdsNextElement(Activated(ads, gone))
     \/ \E e \in {AdClickTimeout, OtherError} :
          ads' = Caught(ads, "close", e, [ads EXCEPT !.pc = "evaluate"])
  /\ UNCHANGED << supVars, hc, sideVars >>

\* Line 163: await page.evaluate("element => element.click()", element)
\* returns, or raises into the handler of line 168.
AdsEvaluate ==
  /\ ads.pc = "evaluate"
  /\ \/ \E gone \in BOOLEAN : ads' = AdsNextElement(Activated(ads, gone))
     \/ ads' = Caught(ads, "close", OtherError, [ads EXCEPT !.pc = "box"])
  /\ UNCHANGED << supVars, hc, sideVars >>

\* Lines 171-172: box = await element.bounding_box() returns a box or
\* None, or raises into the handler of line 181.
AdsBoundingBox ==
  /\ ads.pc = "box"
  /\ \/ ads' = [ads EXCEPT !.pc = "mouse_click"]
     \/ ads' = AdsNextElement(ads)
     \/ ads' = Caught(ads, "close", OtherError, AdsNextElement(ads))
  /\ UNCHANGED << supVars, hc, sideVars >>

\* Lines 173-176: await page.mouse.click(...) returns, or raises into the
\* handler of line 181.
AdsMouseClick ==
  /\ ads.pc = "mouse_click"
  /\ \/ \E gone \in BOOLEAN : ads' = AdsNextElement(Activated(ads, gone))
     \/ ads' = Caught(ads, "close", OtherError, AdsNextElement(ads))
  /\ UNCHANGED << supVars, hc, sideVars >>

\* A scan that goes on for as long as a pass closed an ad.
PassAgainWhileFound(found_ad, attempt) == found_ad

\* for attempt in range(max_attempts): ... if found_ad: continue / else:
\* break  (lines 140 and 188-196): whether another pass follows the pass
\* number attempt (counted from 0) whose found_ad is given.
PassAgain(found_ad, attempt) == found_ad /\ attempt + 1 < max_attempts

\* Lines 190-193: await asyncio.sleep(1); continue: the next pass if one
\* is left, else the overlay scan.
AdsPause ==
  /\ ads.pc = "pause"
  /\ ads' = IF PassAgain(ads.found_ad, ads.attempt)
            THEN StartPass([ads EXCEPT !.attempt = @ + 1])
            ELSE StartOverlays(ads)
  /\ UNCHANGED << supVars, hc, sideVars >>

\* Line 211: overlays = await page.query_selector_all(overlay_sel) returns
\* the matches, or raises into the handler of line 225, which ends the
\* scan.
AdsOverlayQuery ==
  /\ ads.pc = "oquery"
  /\ \/ ads' = AdsNextOverlay(
                 [ads EXCEPT !.els = Matches(ads.dom, "overlay", ads.sel)])
     \/ ads' = Caught(ads, "overlay", OtherError, AdsEnd(ads, NoError))
  /\ UNCHANGED << supVars, hc, sideVars >>

\* Lines 214-215: is_visible = await overlay.is_visible() returns, or
\* raises into the handler of line 223.
AdsOverlayVisible ==
  /\ ads.pc = "ovisible"
  /\ \/ ads' = IF ShouldActivate(ads.dom[ads.cur].visible)
               THEN [ads EXCEPT !.pc = "ofind"]
               ELSE AdsNextOverlay(ads)
     \/ ads' = Caught(ads, "overlay", OtherError, AdsNextOverlay(ads))
  /\ UNCHANGED << supVars, hc, sideVars >>

\* Lines 217-218: close_btn = await overlay.query_selector(...) returns a
\* button or None, or raises into the handler of line 223.
AdsOverlayFind ==
  /\ ads.pc = "ofind"
  /\ \/ ads' = [ads EXCEPT !.pc = "oclick", !.clicked = @ \cup {ads.cur}]
     \/ ads' = AdsNextOverlay(ads)
     \/ ads' = Caught(ads, "overlay", OtherError, AdsNextOverlay(ads))
  /\ UNCHANGED << supVars, hc, sideVars >>

\* Lines 219-220: await close_btn.click(force=True) returns (ads_closed
\* += 1), or raises into the handler of line 223.
AdsOverlayClick ==
  /\ ads.pc = "oclick"
  /\ \/ \E gone \in BOOLEAN :
          ads' = AdsNextOverlay(
                   [ads EXCEPT !.dom = AfterActivation(@, ads.cur, gone)])
     \/ ads' = Caught(ads, "overlay", OtherError, AdsNextOverlay(ads))
  /\ UNCHANGED << supVars, hc, sideVars >>

\* The caller invokes close_google_ads again right after it returned
\* (lines 577 and 581).
AdsAgain ==
  /\ ads.pc = "returned"
  /\ ads.call = 1
  /\ ads' = AdsCall(ads, ads.dom, 2)
  /\ UNCHANGED << supVars, hc, sideVars >>

\* The awaits of a call of close_google_ads.
AdsAwaits ==
  { "settle", "query", "visible", "click", "evaluate", "box", "mouse_click",
    "pause", "oquery", "ovisible", "ofind", "oclick" }

\* The page shows a new overlay while the call is suspended at an await,
\* or between the two calls: a hidden element becomes visible.  after
\* holds the passes in whose sleep (line 190) one appeared.
AdsAppear ==
  /\ \/ ads.pc \in AdsAwaits
     \/ ads.pc = "returned" /\ ads.call = 1
  /\ \E e \in Elements :
       /\ ~ads.dom[e].visible
       /\ ads' = [ads EXCEPT !.dom[e].visible = TRUE, !.appeared = TRUE,
                             !.after = IF ads.pc = "pause"
                                       THEN @ \cup {ads.passes} ELSE @]
  /\ UNCHANGED << supVars, hc, sideVars >>

\* ------------------------------------------------------------------------
\* fingerprints.py: random_profile and the two rendering fingerprints
\* ------------------------------------------------------------------------
\* A string whose characters the code looks at is a sequence of
\* one-character strings.
Win32 == << "W", "i", "n", "3", "2" >>
MacIntel == << "M", "a", "c", "I", "n", "t", "e", "l" >>
LinuxX86 == << "L", "i", "n", "u", "x", " ", "x", "8", "6", "_", "6", "4" >>
LinuxArmv8l == << "L", "i", "n", "u", "x", " ", "a", "r", "m", "v", "8", "l" >>
LinuxArmv7l == << "L", "i", "n", "u", "x", " ", "a", "r", "m", "v", "7", "l" >>
IPhone == << "i", "P", "h", "o", "n", "e" >>

\* sub in text
Contains(text, sub) ==
  \E i \in 1 .. (Len(text) - Len(sub) + 1) :
     SubSeq(text, i, i + Len(sub) - 1) = sub

DigitChars == << "0", "1", "2", "3", "4", "5", "6", "7", "8", "9" >>

\* str(n) for a natural number n, as an f-string formats it.
RECURSIVE Decimal(_)
Decimal(n) ==
  IF n < 10 THEN << DigitChars[n + 1] >>
  ELSE Decimal(n \div 10) \o << DigitChars[(n % 10) + 1] >>

\* DeviceProfile(...) (dataclass, lines 47-57; viewport and scale left out,
\* user_agent shortened to the part in brackets).
DeviceProfile(ua, mobile, touch, plat, mem, cores, points) ==
  [ user_agent |-> ua, is_mobile |-> mobile, has_touch |-> touch,
    platform |-> plat, device_memory |-> mem, hardware_concurrency |-> cores,
    max_touch_points |-> points ]

\* Entries 1, 0, 39 (Windows, one per GPU of the list), 24 and 34.
DESKTOP_PROFILES ==
  { DeviceProfile("Windows NT 10.0; Win64; x64 / 4", FALSE, FALSE, Win32, 4, 4, 0),
    DeviceProfile("Windows NT 10.0; Win64; x64 / 8", FALSE, FALSE, Win32, 8, 8, 0),
    DeviceProfile("Windows NT 10.0; Win64; x64 / 24", FALSE, FALSE, Win32, 24, 64, 0),
    DeviceProfile("Macintosh; Intel Mac OS X 10_15_7", FALSE, FALSE, MacIntel, 8, 8, 0),
    DeviceProfile("X11; Linux x86_64", FALSE, FALSE, LinuxX86, 8, 8, 0) }

\* Entries 0 and 5.
MOBILE_PROFILES ==
  { DeviceProfile("iPhone; CPU iPhone OS 17_6", TRUE, TRUE, IPhone, 6, 6, 5),
    DeviceProfile("Linux; Android 14; SM-S918B", TRUE, TRUE, LinuxArmv8l, 8, 8, 10) }

\* Entries 2 (an iPad, on platform MacIntel), 18 (a Windows tablet) and 24.
TABLET_PROFILES ==
  { DeviceProfile("iPad; CPU OS 17_6", TRUE, TRUE, MacIntel, 8, 8, 5),
    DeviceProfile("Windows NT 10.0; Win64; x64; Touch", TRUE, TRUE, Win32, 16, 16, 10),
    DeviceProfile("Linux; Android 11; KFTRWI", TRUE, TRUE, LinuxArmv7l, 4, 3, 10) }

\* Two of the 35 pairs of LOCALE_TZS.
LOCALE_TZS ==
  { << "en-US", "America/New_York" >>, << "de-DE", "Europe/Berlin" >> }

ColorSchemes == { "light", "dark", "no-preference" }
ReducedMotions == { "no-preference", "reduce" }

\* hashlib.md5(text.encode()).hexdigest(): a digest names the text it was
\* made of and nothing else.
Md5(text) == << "md5", text >>

\* f"{platform}_{device_memory}_{hardware_concurrency}"
DeviceString(platform, device_memory, hardware_concurrency) ==
  platform \o << "_" >> \o Decimal(device_memory) \o << "_" >>
    \o Decimal(hardware_concurrency)

\* device_profile.get(key, default) on a dictionary.
Get(device_profile, key, default) ==
  IF key \in DOMAIN device_profile THEN device_profile[key] ELSE default

generate_canvas_fingerprint(device_profile) ==
  Md5(DeviceString(Get(device_profile, "platform", Win32),
                   Get(device_profile, "device_memory", 8),
                   Get(device_profile, "hardware_concurrency", 4)))

Gpu(v, r) ==
  [ vendor |-> v, renderer |-> r, version |-> "WebGL 1.0",
    shading_language_version |-> "WebGL GLSL ES 1.0" ]

AppleGpu == Gpu("Apple Inc.", "Apple GPU")
AdrenoGpu == Gpu("Qualcomm", "Adreno (TM) 640")
MacGpu == Gpu("Intel Inc.", "Intel(R) Iris(TM) Plus Graphics")
LinuxGpu == Gpu("Mesa", "Mesa DRI Intel(R) UHD Graphics")
gpu_options ==
  << Gpu("NVIDIA Corporation", "NVIDIA GeForce RTX 3060"),
     Gpu("Intel", "Intel(R) UHD Graphics 630"),
     Gpu("AMD", "AMD Radeon RX 580") >>

\* A dictionary without the key is_mobile takes the desktop branch
\* (line 68).
generate_webgl_fingerprint(device_profile) ==
  LET platform == Get(device_profile, "platform", Win32)
      is_mobile == Get(device_profile, "is_mobile", FALSE)
      device_memory == Get(device_profile, "device_memory", 8)
  IN IF is_mobile
     THEN IF Contains(platform, IPhone) THEN AppleGpu ELSE AdrenoGpu
     ELSE IF Contains(platform, << "M", "a", "c" >>) THEN MacGpu
     ELSE IF Contains(platform, << "L", "i", "n", "u", "x" >>) THEN LinuxGpu
     ELSE gpu_options[(device_memory % Len(gpu_options)) + 1]

\* The script text, by the values the f-string embeds in it (lines 131-133,
\* 148-157, 178): the context answers VENDOR, RENDERER, VERSION and
\* SHADING_LANGUAGE_VERSION with webgl_fp and seeds the canvas noise with
\* canvas_fp.  The font list and the fixed text are left out.
create_stealth_scripts(device_profile) ==
  [ canvas_fp |-> generate_canvas_fingerprint(device_profile),
    webgl_fp |-> generate_webgl_fingerprint(device_profile),
    audio_fp |-> Md5(Get(device_profile, "platform", Win32)
                       \o << "_", "a", "u", "d", "i", "o" >>) ]

\* Hardware figures that follow the locale drawn for the profile.
FingerprintArgsByLocale(device, locale) ==
  [ platform |-> device.platform,
    device_memory |-> IF locale = "en-US" THEN device.device_memory
                      ELSE device.device_memory + 1,
    hardware_concurrency |-> device.hardware_concurrency ]

\* The three keys every dictionary random_profile hands to a generator
\* starts with (lines 1102-1104, 1107-1109, 1113-1115): fields of the
\* device only.
FingerprintArgs(device, locale) ==
  [ platform |-> device.platform,
    device_memory |-> device.device_memory,
    hardware_concurrency |-> device.hardware_concurrency ]

\* The dictionary handed to generate_webgl_fingerprint (lines 1106-1111).
WebglArgs(device, locale) ==
  [ is_mobile |-> device.is_mobile ] @@ FingerprintArgs(device, locale)

\* The dictionary handed to create_stealth_scripts (lines 1112-1118,
\* viewport left out): it has no key is_mobile.
StealthArgs(device, locale) ==
  [ max_touch_points |-> device.max_touch_points ]
    @@ FingerprintArgs(device, locale)

\* The dictionary random_profile returns (lines 1084-1125), without the
\* viewport, the scale factor, the headers and the TLS, behaviour and
\* evasion entries.
Profile(device, lt, scheme, motion) ==
  [ user_agent |-> device.user_agent,
    is_mobile |-> device.is_mobile, has_touch |-> device.has_touch,
    platform |-> device.platform, device_memory |-> device.device_memory,
    hardware_concurrency |-> device.hardware_concurrency,
    max_touch_points |-> device.max_touch_points,
    locale |-> lt[1], timezone |-> lt[2], timezone_id |-> lt[2],
    color_scheme |-> scheme, reduced_motion |-> motion,
    canvas_fingerprint |->
      generate_canvas_fingerprint(FingerprintArgs(device, lt[1])),
    webgl_fingerprint |->
      generate_webgl_fingerprint(WebglArgs(device, lt[1])),
    stealth_script |-> create_stealth_scripts(StealthArgs(device, lt[1])) ]

\* random.choices(["desktop", "mobile", "tablet"], weights=[70, 25, 5])
\* and the list the device is drawn from.
DeviceTypes == { "desktop", "mobile", "tablet" }

ProfilesOf(device_type) ==
  IF device_type = "desktop" THEN DESKTOP_PROFILES
  ELSE IF device_type = "mobile" THEN MOBILE_PROFILES
  ELSE TABLET_PROFILES

\* No profile made yet.
FpIdle == [ made |-> << >> ]

\* The last two dictionaries returned, oldest first.
LastTwo(made, profile) ==
  IF Len(made) = 2 THEN << made[2], profile >> ELSE Append(made, profile)

exceptFp == << supVars, hc, ads, boot, wl, sig, live, run, td >>

\* One call of random_profile: five draws from the random source, then the
\* dictionary.  fp keeps the last two dictionaries returned.
random_profile ==
  /\ \E device_type \in DeviceTypes : \E device \in ProfilesOf(device_type) :
     \E lt \in LOCALE_TZS : \E scheme \in ColorSchemes :
     \E motion \in ReducedMotions :
       fp' = [ made |-> LastTwo(fp.made, Profile(device, lt, scheme, motion)) ]
  /\ UNCHANGED exceptFp

\* ------------------------------------------------------------------------
\* main before the workers exist (lines 663-687)
\* ------------------------------------------------------------------------
\* INSTANCES = 3, the module-level default the prompt overrides.
DefaultInstances == 3

\* if n < 1 or n > 50
MinInstances == 1
MaxPrompt == 50

\* Characters str.strip() removes (of those that occur in the inputs).
Whitespace == { " ", "\t" }

RECURSIVE LStrip(_)
LStrip(s) ==
  IF s # << >> /\ Head(s) \in Whitespace THEN LStrip(Tail(s)) ELSE s

RECURSIVE RStrip(_)
RStrip(s) ==
  IF s # << >> /\ s[Len(s)] \in Whitespace
  THEN RStrip(SubSeq(s, 1, Len(s) - 1)) ELSE s

\* s.strip()
Strip(s) == RStrip(LStrip(s))

DigitValue(c) == CHOOSE d \in 0 .. 9 : DigitChars[d + 1] = c

IsDigit(c) == \E d \in 0 .. 9 : DigitChars[d + 1] = c

\* The value of a run of digits and underscores, read left to right.
RECURSIVE DigitsValue(_, _)
DigitsValue(s, acc) ==
  IF s = << >> THEN acc
  ELSE IF Head(s) = "_" THEN DigitsValue(Tail(s), acc)
  ELSE DigitsValue(Tail(s), 10 * acc + DigitValue(Head(s)))

\* The literals int() accepts in base 10: digits, with single underscores
\* between digits.
IsDigits(s) ==
  /\ s # << >>
  /\ \A i \in 1 .. Len(s) : IsDigit(s[i]) \/ s[i] = "_"
  /\ s[1] # "_" /\ s[Len(s)] # "_"
  /\ \A i \in 1 .. (Len(s) - 1) : ~(s[i] = "_" /\ s[i + 1] = "_")

ValueError == [type |-> "ValueError", msg |-> "invalid literal for int()"]

\* int(s): surrounding whitespace dropped, an optional sign, then digits;
\* anything else raises ValueError.
ParseInt(s) ==
  LET t == Strip(s)
      signed == t # << >> /\ Head(t) \in { "+", "-" }
      body == IF signed THEN Tail(t) ELSE t
  IN IF IsDigits(body)
     THEN [ raised |-> NoError,
            value |-> IF signed /\ Head(t) = "-" THEN 0 - DigitsValue(body, 0)
                      ELSE DigitsValue(body, 0) ]
     ELSE [ raised |-> ValueError, value |-> 0 ]

\* A range test that has no upper end.
OutOfRangeBelowOnly(n) == n < MinInstances

\* if n < 1 or n > 50: raise ValueError   (line 680)
OutOfRange(n) == n < MinInstances \/ n > MaxPrompt

\* Lines 677-685: the worker count for the answer user_in, or for a prompt
\* that raised (EOFError) instead of returning.
AskInstances(user_in, inputRaised) ==
  IF inputRaised THEN 1
  ELSE LET parsed == ParseInt(Strip(user_in))
       IN IF parsed.raised # NoError THEN 1
          ELSE IF OutOfRange(parsed.value) THEN 1
          ELSE parsed.value

\* A filter that keeps every line that has a character.
KeepLineNonEmpty(ln) == ln # << >>

\* ... if ln.strip()   (line 668)
KeepLine(ln) == Strip(ln) # << >>

\* [ln.strip() for ln in lines if ln.strip()]
RECURSIVE UrlsOf(_)
UrlsOf(lines) ==
  IF lines = << >> THEN << >>
  ELSE (IF KeepLine(Head(lines)) THEN << Strip(Head(lines)) >> ELSE << >>)
         \o UrlsOf(Tail(lines))

\* Lines of urls.txt: an empty line, a line of blanks, two URLs (one of
\* them with blanks around it).
UrlA == << "h", "t", "t", "p", ":", "/", "/", "a" >>
UrlB == << " ", "h", "t", "t", "p", ":", "/", "/", "b", "\t" >>
FileLines == { << >>, << " ", "\t" >>, UrlA, UrlB }

\* What Path("urls.txt").read_text(...).splitlines() gives: the lines of
\* the file, or an exception when the file is missing or cannot be read.
UrlFiles ==
  { [ raised |-> e, lines |-> << >> ] :
      e \in { [type |-> "FileNotFoundError", msg |-> "urls.txt"],
              [type |-> "PermissionError", msg |-> "urls.txt"] } }
  \cup { [ raised |-> NoError, lines |-> l ] :
           l \in { << >> } \cup { << a >> : a \in FileLines }
                 \cup { << a, b >> : a \in FileLines, b \in FileLines } }

\* Answers typed at the prompt.
PromptInputs ==
  { << "1" >>, << "5", "0" >>, << "5", "1" >>, << "0" >>,
    << " ", "7", "\t" >>, << "-", "3" >>, << "+", "2" >>, << >>,
    << "a", "b", "c" >>, << "2", ".", "5" >>, << "1", "_", "2" >>,
    << "0", "0", "9" >>, << "4", " ", "2" >> }

\* main is past the prompt and the workers exist.
BootIdle ==
  [ pc |-> "running", file |-> [ raised |-> NoError, lines |-> << UrlA >> ],
    user_in |-> << "1" >>, inputRaised |-> FALSE, urls_list |-> << UrlA >>,
    prompted |-> TRUE, exit_status |-> 0 ]

\* main is entered: urls.txt as it is on disk and the answer to come.
BootStart(file, user_in, inputRaised) ==
  [ pc |-> "read", file |-> file, user_in |-> user_in,
    inputRaised |-> inputRaised, urls_list |-> << >>, prompted |-> FALSE,
    exit_status |-> 0 ]

exceptBoot == << hc, ads, fp, wl, sig, live, run, td >>

\* Lines 666-674: urls.txt is read; sys.exit(1) when reading raises or no
\* line is kept.
ReadUrls ==
  /\ boot.pc = "read"
  /\ IF boot.file.raised # NoError
     THEN boot' = [boot EXCEPT !.pc = "exited", !.exit_status = 1]
     ELSE IF UrlsOf(boot.file.lines) = << >>
     THEN boot' = [boot EXCEPT !.pc = "exited", !.exit_status = 1]
     ELSE boot' = [boot EXCEPT !.pc = "prompt",
                               !.urls_list = UrlsOf(boot.file.lines)]
  /\ UNCHANGED << supVars, exceptBoot >>

\* Lines 676-688 and 747: the prompt, the worker states with ids 1..N and
\* one runner_task per state.
Prompt ==
  /\ boot.pc = "prompt"
  /\ boot' = [boot EXCEPT !.pc = "running", !.prompted = TRUE]
  /\ LET n == AskInstances(boot.user_in, boot.inputRaised) IN
       /\ INSTANCES' = n
       /\ states' = [w \in 1 .. n |-> InstanceState(w)]
       /\ pc' = [w \in 1 .. n |-> "top"]
       /\ stepk' = [w \in 1 .. n |-> 0]
       /\ url' = [w \in 1 .. n |-> ""]
       /\ results' = [w \in 1 .. n |-> << >>]
       /\ browser' = [w \in 1 .. n |-> None]
       /\ context' = [w \in 1 .. n |-> None]
       /\ page' = [w \in 1 .. n |-> None]
       /\ exc' = [w \in 1 .. n |-> NoError]
       /\ calls' = [w \in 1 .. n |-> 0]
       /\ counts' = [w \in 1 .. n |-> NoCounts]
  /\ UNCHANGED << total_done, openBrowsers, openContexts, exceptBoot >>

\* ------------------------------------------------------------------------
\* wait_for_load (lines 351-366)
\* ------------------------------------------------------------------------
\* max_ms: int = 8000, and timeout=2000 of the network-idle wait.
DefaultMaxMs == 8000
NetworkIdleMs == 2000

\* wait_for_load calls of one run_once: after page.goto and after each of
\* the steps (lines 573-645).
NumLoads == NumSteps + 1

\* What page.wait_for_load_state raises when the state is not reached
\* within ms milliseconds.
LoadTimeout(ms) ==
  [ type |-> "TimeoutError",
    msg |-> "Timeout " \o ToString(ms) \o "ms exceeded" ]

\* What a wait may raise: its timeout, or an error of the page (closed,
\* crashed, navigated away).
LoadErrors(ms) == { LoadTimeout(ms), OtherError }

\* A handler for timeouts only.
LoadHandlerTimeoutOnly(e) == IF e.type = "TimeoutError" THEN NoError ELSE e

\* except Exception: ... pass   (lines 356-359 and 363-366): the exception
\* that leaves the handler.
LoadHandler(e) == NoError

\* One wait_for_load_state call as the page saw it.
LoadWait(state, timeout, raised) ==
  [ state |-> state, timeout |-> timeout, raised |-> raised ]

\* No wait_for_load call made yet.
WlIdle ==
  [ pc |-> "idle", call |-> 0, max_ms |-> DefaultMaxMs, waits |-> << >>,
    raised |-> NoError ]

exceptWl == << supVars, hc, ads, fp, boot, sig, live, run, td >>

\* await wait_for_load(page): the call is entered (line 351).
WlCall ==
  /\ wl.pc \in { "idle", "returned" }
  /\ wl.call < NumLoads
  /\ wl' = [wl EXCEPT !.pc = "domcontentloaded", !.call = @ + 1,
                      !.waits = << >>]
  /\ UNCHANGED exceptWl

\* Lines 353-359: the wait for the DOM returns or raises e.
WlDomContentLoaded ==
  /\ wl.pc = "domcontentloaded"
  /\ \E e \in { NoError } \cup LoadErrors(wl.max_ms) :
       LET out == IF e = NoError THEN NoError ELSE LoadHandler(e) IN
         wl' = [wl EXCEPT
                  !.waits = Append(@, LoadWait("domcontentloaded",
                                               wl.max_ms, e)),
                  !.raised = out,
                  !.pc = IF out = NoError THEN "networkidle" ELSE "raised"]
  /\ UNCHANGED exceptWl

\* Lines 360-366: the wait for network idle returns or raises e.
WlNetworkIdle ==
  /\ wl.pc = "networkidle"
  /\ \E e \in { NoError } \cup LoadErrors(NetworkIdleMs) :
       LET out == IF e = NoError THEN NoError ELSE LoadHandler(e) IN
         wl' = [wl EXCEPT
                  !.waits = Append(@, LoadWait("networkidle",
                                               NetworkIdleMs, e)),
                  !.raised = out,
                  !.pc = IF out = NoError THEN "returned" ELSE "raised"]
  /\ UNCHANGED exceptWl

\* ------------------------------------------------------------------------
\* main's Live loop, make_dashboard and the shutdown (lines 693-762)
\* ------------------------------------------------------------------------
\* s.last_url[:40] + ("…" if len(s.last_url) > 40 else "")
ShowUrl(u) == IF Len(u) > 40 THEN SubSeq(u, 1, 40) \o "..." ELSE u

\* table.add_row(str(s.id), s.status, ...) for the InstanceState s
\* (lines 704-706).
Row(s) ==
  [ inst |-> Decimal(s.id), status |-> s.status, step |-> s.current_step,
    runs |-> Decimal(s.runs), ok |-> Decimal(s.successes),
    fail |-> Decimal(s.failures), last_url |-> ShowUrl(s.last_url),
    last_detail |-> s.last_detail ]

\* A count of the rows that are not idle.
IsOngoingNotIdle(s) == s.status # "idle"

\* ... if s.status == 'running'   (line 715)
IsOngoing(s) == s.status = "running"

\* "Ongoing: "
OngoingLabel == << "O", "n", "g", "o", "i", "n", "g", ":", " " >>

\* The Totals row (lines 708-717) for the list sts of states.
Totals(sts) ==
  LET W == DOMAIN sts IN
  [ runs |-> Decimal(SumCalls([w \in W |-> sts[w].runs], W)),
    ok |-> Decimal(SumCalls([w \in W |-> sts[w].successes], W)),
    fail |-> Decimal(SumCalls([w \in W |-> sts[w].failures], W)),
    ongoing |-> OngoingLabel
                  \o Decimal(Cardinality({ w \in W : IsOngoing(sts[w]) })) ]

\* make_dashboard() (lines 693-718): one row per state, then the totals.
make_dashboard(sts) ==
  [ rows |-> [w \in DOMAIN sts |-> Row(sts[w])], totals |-> Totals(sts) ]

\* Live has been handed no table yet.
NoTable == [ rows |-> << >>, totals |-> Totals(<< >>) ]

\* main is in its Live loop and no runner has been cancelled.  sig.cancel
\* holds the runners on which cancel() was called and into which the
\* CancelledError has not been thrown yet.
SigLive == [ pc |-> "live", cancel |-> {} ]

\* asyncio.CancelledError: a BaseException, caught by no `except
\* Exception` and by no contextlib.suppress(Exception).
CancelledError == [type |-> "CancelledError", msg |-> ""]

\* The awaits of run_once inside the try block, before the finally block.
InTry ==
  { "launch", "relaunch", "session", "new_page", "evaluate", "goto",
    "open_ads", "step" }

\* The awaits of the finally block of run_once (lines 657, 660).
Closing == { "close_context", "close_browser" }

\* The awaits of run_once once the try block is left: those of the
\* finally block and the exit of the async with block (line 412).
Leaving == Closing \cup { "driver_stop" }

\* The awaits between two iterations of runner_task (lines 737, 744) and
\* the top of the loop.
Boundary == { "top", "sleep_ok", "sleep_err" }

\* Runner w goes on as usual: no cancellation is pending for it.
Runs(w) == w \notin sig.cancel

\* The runner tasks that have not ended.
Alive == { w \in Workers : pc[w] # "cancelled" }

\* Lines 756-762: the shutdown signal surfaces in main as KeyboardInterrupt
\* or SystemExit; the except arm calls cancel() on every runner and the
\* finally block waits for them.
Interrupt ==
  /\ sig.pc = "live"
  /\ sig' = [ pc |-> "gather", cancel |-> Alive ]
  /\ UNCHANGED << supVars, hc, ads, fp, boot, wl, live, run, td >>

\* Lines 755-762 and 767: asyncio.run answers the signal by cancelling the
\* task of main; the CancelledError raised by `await asyncio.sleep(0.25)`
\* is not matched by `except (KeyboardInterrupt, SystemExit)`, no runner is
\* cancelled, and the finally block waits for runners that go on.
MainCancelled ==
  /\ sig.pc = "live"
  /\ sig' = [ pc |-> "gather", cancel |-> {} ]
  /\ UNCHANGED << supVars, hc, ads, fp, boot, wl, live, run, td >>

\* CancelledError is thrown into runner w at the await it is suspended
\* at.  Between iterations and while the driver starts, the task just
\* ends.  Inside the try of run_once the finally block is entered with
\* the error in flight (lines 654-662).  Inside a close() of the finally
\* block the error leaves the suppress, the closes after it and line 662
\* are skipped, and the exit of the async with block is awaited.  Inside
\* that exit the task ends with the driver as it is.  No arm of
\* runner_task catches the error.
Throw(w) ==
  /\ w \in sig.cancel
  /\ sig' = [sig EXCEPT !.cancel = @ \ {w}]
  /\ \/ /\ pc[w] \in Boundary \cup { "playwright" }
        /\ pc' = [pc EXCEPT ![w] = "cancelled"]
        /\ UNCHANGED << states, total_done, stepk, results, browser, context,
                        page, exc, counts, openBrowsers, openContexts >>
     \/ /\ pc[w] \in InTry
        /\ EnterFinally(w, states[w], CancelledError, results[w])
     \/ /\ pc[w] \in Closing
        /\ pc' = [pc EXCEPT ![w] = "driver_stop"]
        /\ exc' = [exc EXCEPT ![w] = CancelledError]
        /\ UNCHANGED << states, total_done, stepk, results, browser, context,
                        page, counts, openBrowsers, openContexts >>
     \/ /\ pc[w] = "driver_stop"
        /\ pc' = [pc EXCEPT ![w] = "cancelled"]
        /\ exc' = [exc EXCEPT ![w] = CancelledError]
        /\ browser' = [browser EXCEPT ![w] = None]
        /\ context' = [context EXCEPT ![w] = None]
        /\ page' = [page EXCEPT ![w] = None]
        /\ UNCHANGED << states, total_done, stepk, results, counts,
                        openBrowsers, openContexts >>
  /\ UNCHANGED << INSTANCES, url, calls >>
  /\ UNCHANGED << hc, ads, fp, boot, wl, live, run, td >>

\* The exit of the async with block is over in a run_once call that a
\* CancelledError is leaving (line 412): the driver is stopped, no arm of
\* runner_task catches the error (lines 738-744 name Exception) and the
\* task ends.
TaskEnds(w) ==
  /\ pc[w] = "driver_stop"
  /\ exc[w] = CancelledError
  /\ pc' = [pc EXCEPT ![w] = "cancelled"]
  /\ openBrowsers' = DriverStop(openBrowsers, browser[w])
  /\ openContexts' = DriverStop(openContexts, context[w])
  /\ browser' = [browser EXCEPT ![w] = None]
  /\ context' = [context EXCEPT ![w] = None]
  /\ page' = [page EXCEPT ![w] = None]
  /\ UNCHANGED << INSTANCES, states, total_done, stepk, url, results, exc,
                  calls, counts, sig >>
  /\ UNCHANGED << hc, ads, fp, boot, wl, live, run, td >>

\* Line 762 and 767: gather returns once every runner has ended; main and
\* asyncio.run return.
Exit ==
  /\ sig.pc = "gather"
  /\ Alive = {}
  /\ sig' = [sig EXCEPT !.pc = "exited"]
  /\ UNCHANGED << supVars, hc, ads, fp, boot, wl, live, run, td >>

\* Lines 752-755: Live(make_dashboard(), ...) and, every quarter of a
\* second, live.update(make_dashboard(), refresh=True).
Refresh ==
  /\ sig.pc = "live"
  /\ live' = make_dashboard(states)
  /\ UNCHANGED << supVars, hc, ads, fp, boot, wl, sig, run, td >>

\* ------------------------------------------------------------------------
\* run_once: the script of lines 565-653, call by call
\* ------------------------------------------------------------------------
\* The calls of the opening of the url (lines 565-577), in the order of the
\* text: the label, page.goto, wait_for_load, the Open URL entry and the
\* first close_google_ads.
OpenOps ==
  << "label", "goto", "wait_for_load", "append", "close_google_ads" >>

\* A step that records its outcome right after the click.
StepOpsNoSettle(k) ==
  << "label", "close_google_ads", "hard_click", "append" >>

\* The calls of step k, 1 <= k <= 9 (lines 579-640): the label,
\* close_google_ads, hard_click, wait_for_load and the StepResult.
StepOps(k) ==
  << "label", "close_google_ads", "hard_click", "wait_for_load", "append" >>

\* A last step that clicks first and dwells afterwards.
FinalOpsClickFirst ==
  << "label", "close_google_ads", "wait_for_load", "hard_click", "sleep 5",
     "sleep 1", "append" >>

\* The calls of step 10 (lines 642-649): the label, close_google_ads,
\* wait_for_load, asyncio.sleep(5), hard_click, asyncio.sleep(1) and the
\* StepResult.
FinalOps ==
  << "label", "close_google_ads", "wait_for_load", "sleep 5", "hard_click",
     "sleep 1", "append" >>

\* The calls of step k of the script, step 0 being the opening of the url.
ScriptOps(k) ==
  IF k = 0 THEN OpenOps ELSE IF k < NumSteps THEN StepOps(k) ELSE FinalOps

\* state.current_step at the head of step k (lines 565, 580, ..., 643).
ScriptLabel(k) == IF k = 0 THEN "open url" ELSE StepLabel(k)

\* A script that records every outcome under the name of step 1.
StepOutcomeUnnumbered(k, u) ==
  IF k = 0 THEN StepResult("Open URL", "OK", u)
  ELSE StepResult(StepName(1), "OK", StepDetail(k))

\* The StepResult appended at the end of step k for the url u (lines 574,
\* 584, ..., 649).
StepOutcome(k, u) ==
  IF k = 0 THEN StepResult("Open URL", "OK", u)
  ELSE StepResult(StepName(k), "OK", StepDetail(k))

\* What hard_click raises when it gives up (line 348): the last error it
\* recorded, or its own RuntimeError.
HcRaises == { PollTimeout, ClickTimeout, OtherError, NotFound }

\* A call of the script that is over: in step k, the call op ended by
\* returning ("ok"), by raising into a handler that dropped the exception
\* ("swallowed"), or by raising out of the script ("raised").
Event(k, op, out) == [ k |-> k, op |-> op, out |-> out ]

\* No run_once call is being followed.
RunIdle ==
  [ pc |-> "idle", k |-> 0, j |-> 1, trace |-> << >>, results |-> << >>,
    state |-> InstanceState(1), exc |-> NoError, url |-> "" ]

\* runner_task picked the url u (lines 723-726) and called run_once, which
\* set current_step to "launching" (line 413) and has reached line 565 with
\* results = [] (lines 410-564).
RunCall(u) ==
  [ RunIdle EXCEPT !.pc = "script", !.url = u,
                   !.state = [ RunnerBegin(@, u) EXCEPT
                                 !.current_step = "launching" ] ]

\* The call the script is at.
CurrentOp(r) == ScriptOps(r.k)[r.j]

\* The call in hand is over without an exception leaving it: the script
\* goes on with the next call of the step, with the next step, or after
\* the last step with lines 652-653 and the finally block.
Returned(r, out) ==
  LET t == Append(r.trace, Event(r.k, CurrentOp(r), out))
  IN IF r.j < Len(ScriptOps(r.k)) THEN [r EXCEPT !.trace = t, !.j = @ + 1]
     ELSE IF r.k < NumSteps THEN [r EXCEPT !.trace = t, !.k = @ + 1, !.j = 1]
     ELSE [r EXCEPT !.trace = t, !.pc = "finally",
                    !.state.current_step = "closing"]

\* A script that goes on with the next call after an exception.
RaisedGoesOn(r, e) == Returned(r, "raised")

\* The call in hand raised e and no handler of the script catches it:
\* control moves to the finally block (line 654).
Raised(r, e) ==
  [ r EXCEPT !.trace = Append(@, Event(r.k, CurrentOp(r), "raised")),
             !.exc = e, !.pc = "finally" ]

\* An await on a browser operation that has no timeout and never completes.
Hung(r) == [ r EXCEPT !.pc = "hung" ]

exceptRun == << supVars, hc, ads, fp, boot, wl, sig, live, td >>

\* state.current_step = ...  at the head of a step.
ScLabel ==
  /\ run.pc = "script" /\ CurrentOp(run) = "label"
  /\ run' = Returned([run EXCEPT !.state.current_step = ScriptLabel(run.k)],
                     "ok")
  /\ UNCHANGED exceptRun

\* Lines 566-572: page.goto(url, wait_until="domcontentloaded",
\* timeout=8000) returns or raises, inside try / except Exception: pass.
ScGoto ==
  /\ run.pc = "script" /\ CurrentOp(run) = "goto"
  /\ \E raised \in BOOLEAN :
       run' = IF GotoOutcome(raised) = NoError
              THEN Returned(run, IF raised THEN "swallowed" ELSE "ok")
              ELSE Raised(run, GotoOutcome(raised))
  /\ UNCHANGED exceptRun

\* await wait_for_load(page): both of its waits have a timeout and a
\* handler that drops the exception (lines 351-366).
ScWaitForLoad ==
  /\ run.pc = "script" /\ CurrentOp(run) = "wait_for_load"
  /\ run' = Returned(run, "ok")
  /\ UNCHANGED exceptRun

\* await close_google_ads(page): it returns whatever the page raises
\* (lines 63-234); its page.query_selector_all, is_visible, page.evaluate
\* and bounding_box calls are awaited without a timeout.
ScCloseAds ==
  /\ run.pc = "script" /\ CurrentOp(run) = "close_google_ads"
  /\ \/ run' = Returned(run, "ok")
     \/ run' = Hung(run)
  /\ UNCHANGED exceptRun

\* await hard_click(page, sel, sel): it returns after an activation, or
\* raises when its search budget is used up; its bounding_box, mouse and
\* page.evaluate calls are awaited without a timeout.
ScHardClick ==
  /\ run.pc = "script" /\ CurrentOp(run) = "hard_click"
  /\ \/ run' = Returned(run, "ok")
     \/ \E e \in HcRaises : run' = Raised(run, e)
     \/ run' = Hung(run)
  /\ UNCHANGED exceptRun

\* await asyncio.sleep(5) and await asyncio.sleep(1) of step 10 (lines 646
\* and 648): the event is the end of the sleep.
ScSleep ==
  /\ run.pc = "script" /\ CurrentOp(run) \in {"sleep 5", "sleep 1"}
  /\ run' = Returned(run, "ok")
  /\ UNCHANGED exceptRun

\* results.append(StepResult(...)) at the end of a step.
ScAppend ==
  /\ run.pc = "script" /\ CurrentOp(run) = "append"
  /\ run' = Returned([run EXCEPT !.results =
                                   Append(@, StepOutcome(run.k, run.url))],
                     "ok")
  /\ UNCHANGED exceptRun

\* The finally block (lines 654-662): the two close() calls return or
\* raise under contextlib.suppress(Exception) and the Done entry is
\* appended, up to the exit of the async with block (line 412); or a
\* close() never completes.
ScFinally ==
  /\ run.pc = "finally"
  /\ \/ \E closeRaises \in BOOLEAN :
          run' = [run EXCEPT !.pc = "driver_stop",
                             !.results = AfterCloses(@),
                             !.exc = IF closeRaises
                                     THEN SuppressClose(@, CloseError) ELSE @]
     \/ run' = Hung(run)
  /\ UNCHANGED exceptRun

\* The exit of the async with block is over (line 412) and the arm of
\* runner_task receives the outcome (lines 731-736, 739-742): run_once
\* returns its list or raises its exception; or the exit never completes.
ScLeave ==
  /\ run.pc = "driver_stop"
  /\ \/ run' = IF run.exc = NoError
               THEN [run EXCEPT !.pc = "returned",
                                !.state = RunnerSuccess(@, run.results)]
               ELSE [run EXCEPT !.pc = "raised",
                                !.state = RunnerFailure(@, run.exc)]
     \/ run' = Hung(run)
  /\ UNCHANGED exceptRun

\* ------------------------------------------------------------------------
\* run_once: the finally block of lines 654-662, close by close
\* ------------------------------------------------------------------------
\* if context is not None / if browser is not None  (lines 656, 659).
CloseDue(h) == h # None

\* One suppress block around both closes: a close that raises leaves it.
AfterContextCloseOneBlock(raised) ==
  IF raised THEN "done" ELSE "browser_close"

\* Where the finally block is after its first with block, whether or not
\* context.close() raised in it: at the second with block (line 658).
AfterContextClose(raised) == "browser_close"

\* No finally block is being followed.
TdIdle ==
  [ pc |-> "idle", context |-> None, browser |-> None, exc |-> NoError,
    results |-> << >>, log |-> << >> ]

\* Control enters the finally block with the locals context and browser,
\* the exception e in flight (NoError after `return results`) and the
\* list res (line 654).
TdEnter(ctx, br, e, res) ==
  [ TdIdle EXCEPT !.pc = "context_close", !.context = ctx, !.browser = br,
                  !.exc = e, !.results = res ]

\* A close() call on the resource named what, which raised or returned.
CloseCall(what, raised) == [ what |-> what, raised |-> raised ]

exceptTd == << supVars, hc, ads, fp, boot, wl, sig, live, run >>

\* Lines 655-657: with contextlib.suppress(Exception): context.close() if
\* there is a context; it returns or raises, and the exception in flight
\* stays what it was.
TdContextClose ==
  /\ td.pc = "context_close"
  /\ \/ /\ CloseDue(td.context)
        /\ \E raised \in BOOLEAN :
             td' = [td EXCEPT
                      !.log = Append(@, CloseCall("context", raised)),
                      !.exc = IF raised THEN SuppressClose(@, CloseError)
                              ELSE @,
                      !.pc = AfterContextClose(raised)]
     \/ /\ ~CloseDue(td.context)
        /\ td' = [td EXCEPT !.pc = AfterContextClose(FALSE)]
  /\ UNCHANGED exceptTd

\* Lines 658-660: the same for browser.close().
TdBrowserClose ==
  /\ td.pc = "browser_close"
  /\ \/ /\ CloseDue(td.browser)
        /\ \E raised \in BOOLEAN :
             td' = [td EXCEPT
                      !.log = Append(@, CloseCall("browser", raised)),
                      !.exc = IF raised THEN SuppressClose(@, CloseError)
                              ELSE @,
                      !.pc = "done"]
     \/ /\ ~CloseDue(td.browser)
        /\ td' = [td EXCEPT !.pc = "done"]
  /\ UNCHANGED exceptTd

\* Lines 661-662: the Done entry; run_once is left.
TdDone ==
  /\ td.pc = "done"
  /\ td' = [td EXCEPT !.results = AfterCloses(@), !.pc = "left"]
  /\ UNCHANGED exceptTd

\* ------------------------------------------------------------------------
\* Specifications
\* ------------------------------------------------------------------------
SupInit ==
  /\ INSTANCES \in 1 .. MaxInstances
  /\ states = [w \in 1 .. INSTANCES |-> InstanceState(w)]
  /\ total_done = 0
  /\ pc = [w \in 1 .. INSTANCES |-> "top"]
  /\ stepk = [w \in 1 .. INSTANCES |-> 0]
  /\ url = [w \in 1 .. INSTANCES |-> ""]
  /\ results = [w \in 1 .. INSTANCES |-> << >>]
  /\ browser = [w \in 1 .. INSTANCES |-> None]
  /\ context = [w \in 1 .. INSTANCES |-> None]
  /\ page = [w \in 1 .. INSTANCES |-> None]
  /\ exc = [w \in 1 .. INSTANCES |-> NoError]
  /\ calls = [w \in 1 .. INSTANCES |-> 0]
  /\ counts = [w \in 1 .. INSTANCES |-> NoCounts]
  /\ openBrowsers = {}
  /\ openContexts = {}

\* The program after main has built the worker states; no click and no
\* overlay scan is followed on its own.
SideIdle ==
  /\ fp = FpIdle
  /\ boot = BootIdle
  /\ wl = WlIdle
  /\ sig = SigLive
  /\ live = NoTable
  /\ run = RunIdle
  /\ td = TdIdle

Init == SupInit /\ hc = HcIdle /\ ads = AdsIdle /\ SideIdle

WorkerStep(w) ==
  /\ \/ RunnerStart(w)
     \/ PlaywrightStart(w)
     \/ Launch(w)
     \/ Relaunch(w)
     \/ NewContext(w)
     \/ NewPage(w)
     \/ PageEvaluate(w)
     \/ Goto(w)
     \/ OpenAds(w)
     \/ Step(w)
     \/ ContextClose(w)
     \/ BrowserClose(w)
     \/ LeaveRunOnce(w)
     \/ SleepDone(w)
  /\ UNCHANGED << hc, ads, sideVars >>

Next ==
  \/ \E w \in Workers : RunnerStart(w) /\ UNCHANGED << hc, ads, sideVars >>
  \/ \E w \in Workers : PlaywrightStart(w) /\ UNCHANGED << hc, ads, sideVars >>
  \/ \E w \in Workers : Launch(w) /\ UNCHANGED << hc, ads, sideVars >>
  \/ \E w \in Workers : Relaunch(w) /\ UNCHANGED << hc, ads, sideVars >>
  \/ \E w \in Workers : NewContext(w) /\ UNCHANGED << hc, ads, sideVars >>
  \/ \E w \in Workers : NewPage(w) /\ UNCHANGED << hc, ads, sideVars >>
  \/ \E w \in Workers : PageEvaluate(w) /\ UNCHANGED << hc, ads, sideVars >>
  \/ \E w \in Workers : Goto(w) /\ UNCHANGED << hc, ads, sideVars >>
  \/ \E w \in Workers : OpenAds(w) /\ UNCHANGED << hc, ads, sideVars >>
  \/ \E w \in Workers : Step(w) /\ UNCHANGED << hc, ads, sideVars >>
  \/ \E w \in Workers : ContextClose(w) /\ UNCHANGED << hc, ads, sideVars >>
  \/ \E w \in Workers : BrowserClose(w) /\ UNCHANGED << hc, ads, sideVars >>
  \/ \E w \in Workers : LeaveRunOnce(w) /\ UNCHANGED << hc, ads, sideVars >>
  \/ \E w \in Workers : SleepDone(w) /\ UNCHANGED << hc, ads, sideVars >>

Spec == Init /\ [][Next]_vars


\* One runner_task loop on its own: the loops wait on nothing of each
\* other, so progress of a loop is studied with a single worker.
InitLive == Init /\ INSTANCES = 1

\* One hard_click call on its own.  A call with the primary selector
\* only, and a call on a page whose target stays hidden, is followed from
\* its first line, for each argument list.  The call with
\* MaxManySelectors fallback selectors on a page that may answer in every
\* way is followed from the last rounds before its deadline, the page
\* having shown nothing until then.
InitClick ==
  /\ SupInit /\ INSTANCES = 1
  /\ ads = AdsIdle
  /\ SideIdle
  /\ \E many \in 0 .. MaxManySelectors : \E dbl \in BOOLEAN :
       \/ \E k \in PageKinds :
            /\ many = 0 \/ k = "hidden"
            /\ hc = HcCall(many, dbl, k)
       \/ /\ many = MaxManySelectors
          /\ \E rounds \in LateRounds(many) :
               hc = HcPolled(many, dbl, "any", rounds)

NextClick ==
  \/ HcWhile
  \/ HcWaitForSelector
  \/ HcScroll
  \/ HcBackoff
  \/ HcSleep
  \/ HcElementClick
  \/ HcDblclick
  \/ HcBoundingBox
  \/ HcMouse
  \/ HcPageClick
  \/ HcEvaluate

SpecClick == InitClick /\ [][NextClick]_vars

\* close_google_ads called twice in succession on a page, for each page.
InitAds ==
  /\ SupInit /\ INSTANCES = 1
  /\ hc = HcIdle
  /\ SideIdle
  /\ \E dom \in Pages : ads = AdsCall(AdsIdle, dom, 1)

NextAds ==
  \/ AdsSettle
  \/ AdsQuery
  \/ AdsVisible
  \/ AdsClick
  \/ AdsEvaluate
  \/ AdsBoundingBox
  \/ AdsMouseClick
  \/ AdsPause
  \/ AdsOverlayQuery
  \/ AdsOverlayVisible
  \/ AdsOverlayFind
  \/ AdsOverlayClick
  \/ AdsAgain
  \/ AdsAppear

SpecAds == InitAds /\ [][NextAds]_vars

\* random_profile called again and again, with nothing else going on.
InitProfile ==
  /\ SupInit /\ INSTANCES = 1
  /\ hc = HcIdle /\ ads = AdsIdle
  /\ boot = BootIdle /\ wl = WlIdle /\ sig = SigLive /\ live = NoTable
  /\ run = RunIdle
  /\ td = TdIdle
  /\ fp = FpIdle

NextProfile == random_profile

SpecProfile == InitProfile /\ [][NextProfile]_vars

\* main from its first line to the creation of the runner tasks, for each
\* urls.txt and each answer to the prompt.
InitBoot ==
  /\ INSTANCES = DefaultInstances
  /\ states = << >> /\ pc = << >> /\ stepk = << >> /\ url = << >>
  /\ results = << >> /\ browser = << >> /\ context = << >> /\ page = << >>
  /\ exc = << >> /\ calls = << >> /\ counts = << >>
  /\ total_done = 0 /\ openBrowsers = {} /\ openContexts = {}
  /\ hc = HcIdle /\ ads = AdsIdle
  /\ fp = FpIdle /\ wl = WlIdle /\ sig = SigLive /\ live = NoTable
  /\ run = RunIdle
  /\ td = TdIdle
  /\ \E file \in UrlFiles : \E user_in \in PromptInputs :
     \E inputRaised \in BOOLEAN :
       /\ inputRaised => user_in = << >>
       /\ boot = BootStart(file, user_in, inputRaised)

NextBoot ==
  \/ ReadUrls
  \/ Prompt

SpecBoot == InitBoot /\ [][NextBoot]_vars

\* The wait_for_load calls of one run_once, one after the other.
InitLoad ==
  /\ SupInit /\ INSTANCES = 1
  /\ hc = HcIdle /\ ads = AdsIdle
  /\ SideIdle

NextLoad ==
  \/ WlCall
  \/ WlDomContentLoaded
  \/ WlNetworkIdle

SpecLoad == InitLoad /\ [][NextLoad]_vars

\* Where a worker can be when main's loop comes to a refresh, with the
\* InstanceState it then has: not started; url picked; launching; second
\* launch attempt; asleep after a run that failed at the start of the
\* driver; at the top after that sleep; in a new run after it; back at
\* the top after a run that succeeded; in a new run after that.
Situations ==
  { "fresh", "picked", "launching", "relaunching", "failed", "awake",
    "restarted", "succeeded", "rerun" }

\* The outcomes of a run in which every step succeeded.
FullResults(u) ==
  << StepResult("Open URL", "OK", u) >>
    \o [k \in 1 .. NumSteps |-> StepResult(StepName(k), "OK", StepDetail(k))]

SituationState(w, sit, u) ==
  LET picked == RunnerBegin(InstanceState(w), u)
      failed == RunnerFailure(picked, [type |-> "TimeoutError",
                                       msg |-> "Timeout 8000ms exceeded"])
      succeeded == RunnerSuccess([picked EXCEPT !.current_step = "closing"],
                                 AfterCloses(FullResults(u)))
  IN CASE sit = "fresh" -> InstanceState(w)
       [] sit = "picked" -> picked
       [] sit \in { "launching", "relaunching" } ->
            [picked EXCEPT !.current_step = "launching"]
       [] sit \in { "failed", "awake" } -> failed
       [] sit = "restarted" -> RunnerBegin(failed, u)
       [] sit = "succeeded" -> succeeded
       [] sit = "rerun" -> RunnerBegin(succeeded, u)

SituationPc(sit) ==
  CASE sit \in { "fresh", "awake", "succeeded" } -> "top"
    [] sit \in { "picked", "restarted", "rerun" } -> "playwright"
    [] sit = "launching" -> "launch"
    [] sit = "relaunching" -> "relaunch"
    [] sit = "failed" -> "sleep_err"

SituationCalls(sit) ==
  IF sit = "fresh" THEN 0
  ELSE IF sit \in { "restarted", "rerun" } THEN 2 ELSE 1

\* make_dashboard applied to the worker states main can find: every
\* worker in one of the situations, within the cap on run_once calls.
InitDash ==
  /\ INSTANCES \in 1 .. MaxInstances
  /\ \E sit \in [1 .. INSTANCES -> Situations] : \E u \in Urls :
       /\ states = [w \in 1 .. INSTANCES |-> SituationState(w, sit[w], u)]
       /\ pc = [w \in 1 .. INSTANCES |-> SituationPc(sit[w])]
       /\ calls = [w \in 1 .. INSTANCES |-> SituationCalls(sit[w])]
       /\ url = [w \in 1 .. INSTANCES |->
                   IF sit[w] = "fresh" THEN "" ELSE u]
       /\ total_done =
            Cardinality({ w \in 1 .. INSTANCES :
                            sit[w] \in { "succeeded", "rerun" } })
  /\ TotalCalls <= MaxRuns
  /\ stepk = [w \in 1 .. INSTANCES |-> 0]
  /\ results = [w \in 1 .. INSTANCES |-> << >>]
  /\ browser = [w \in 1 .. INSTANCES |-> None]
  /\ context = [w \in 1 .. INSTANCES |-> None]
  /\ page = [w \in 1 .. INSTANCES |-> None]
  /\ exc = [w \in 1 .. INSTANCES |-> NoError]
  /\ counts = [w \in 1 .. INSTANCES |-> NoCounts]
  /\ openBrowsers = {} /\ openContexts = {}
  /\ hc = HcIdle /\ ads = AdsIdle
  /\ SideIdle

NextDash == Refresh

SpecDash == InitDash /\ [][NextDash]_vars

\* One run_once call from line 565 on, for each url.
InitScript ==
  /\ SupInit /\ INSTANCES = 1
  /\ hc = HcIdle /\ ads = AdsIdle
  /\ fp = FpIdle /\ boot = BootIdle /\ wl = WlIdle
  /\ sig = SigLive /\ live = NoTable
  /\ td = TdIdle
  /\ \E u \in Urls : run = RunCall(u)

NextScript ==
  \/ ScLabel
  \/ ScGoto
  \/ ScWaitForLoad
  \/ ScCloseAds
  \/ ScHardClick
  \/ ScSleep
  \/ ScAppend
  \/ ScFinally
  \/ ScLeave

SpecScript == InitScript /\ [][NextScript]_vars

\* The same call when every step that can be taken is taken in the end:
\* an await that completes does so, a timeout that is set expires.
SpecScriptLive == SpecScript /\ WF_vars(NextScript)

\* The ways in which a run_once call comes to its finally block: both
\* launch attempts raised (nothing opened); a call between the launch and
\* the creation of the context raised; a later call before the script
\* raised; the click of step k raised; the script returned.
TeardownEntries ==
  { TdEnter(None, None, e, << >>) : e \in Errors }
    \cup { TdEnter(None, NewHandle(1, 1), e, << >>) : e \in Errors }
    \cup { TdEnter(NewHandle(1, 1), NewHandle(1, 1), e, << >>) : e \in Errors }
    \cup UNION { { TdEnter(NewHandle(1, 1), NewHandle(1, 1), e,
                           SubSeq(FullResults(u), 1, k)) :
                     e \in HcRaises, k \in 1 .. NumSteps } : u \in Urls }
    \cup { TdEnter(NewHandle(1, 1), NewHandle(1, 1), NoError, FullResults(u)) :
             u \in Urls }

\* One finally block, for each way of coming to it.
InitTeardown ==
  /\ SupInit /\ INSTANCES = 1
  /\ hc = HcIdle /\ ads = AdsIdle
  /\ fp = FpIdle /\ boot = BootIdle /\ wl = WlIdle
  /\ sig = SigLive /\ live = NoTable /\ run = RunIdle
  /\ td \in TeardownEntries

NextTeardown ==
  \/ TdContextClose
  \/ TdBrowserClose
  \/ TdDone

SpecTeardown == InitTeardown /\ [][NextTeardown]_vars

\* The workers and main's loop when a shutdown signal can arrive.
NextShutdown ==
  \/ \E w \in Workers :
       Runs(w) /\ RunnerStart(w) /\ UNCHANGED << hc, ads, sideVars >>
  \/ \E w \in Workers :
       Runs(w) /\ PlaywrightStart(w) /\ UNCHANGED << hc, ads, sideVars >>
  \/ \E w \in Workers :
       Runs(w) /\ Launch(w) /\ UNCHANGED << hc, ads, sideVars >>
  \/ \E w \in Workers :
       Runs(w) /\ Relaunch(w) /\ UNCHANGED << hc, ads, sideVars >>
  \/ \E w \in Workers :
       Runs(w) /\ NewContext(w) /\ UNCHANGED << hc, ads, sideVars >>
  \/ \E w \in Workers :
       Runs(w) /\ NewPage(w) /\ UNCHANGED << hc, ads, sideVars >>
  \/ \E w \in Workers :
       Runs(w) /\ PageEvaluate(w) /\ UNCHANGED << hc, ads, sideVars >>
  \/ \E w \in Workers :
       Runs(w) /\ Goto(w) /\ UNCHANGED << hc, ads, sideVars >>
  \/ \E w \in Workers :
       Runs(w) /\ OpenAds(w) /\ UNCHANGED << hc, ads, sideVars >>
  \/ \E w \in Workers :
       Runs(w) /\ Step(w) /\ UNCHANGED << hc, ads, sideVars >>
  \/ \E w \in Workers :
       Runs(w) /\ ContextClose(w) /\ UNCHANGED << hc, ads, sideVars >>
  \/ \E w \in Workers :
       Runs(w) /\ BrowserClose(w) /\ UNCHANGED << hc, ads, sideVars >>
  \/ \E w \in Workers :
       Runs(w) /\ LeaveRunOnce(w) /\ UNCHANGED << hc, ads, sideVars >>
  \/ \E w \in Workers :
       Runs(w) /\ SleepDone(w) /\ UNCHANGED << hc, ads, sideVars >>
  \/ Interrupt
  \/ MainCancelled
  \/ \E w \in Workers : Throw(w)
  \/ \E w \in Workers : TaskEnds(w)
  \/ Exit

SpecShutdown == Init /\ [][NextShutdown]_vars

\* The event loop runs every task that is ready, browser calls come back
\* and sleeps end: each worker keeps taking steps.
SpecLive ==
  /\ InitLive
  /\ [][Next]_vars
  /\ \A w \in 1 .. MaxInstances : WF_vars(w \in Workers /\ WorkerStep(w))

\* ------------------------------------------------------------------------
\* Properties of the supervisor and of run_once
\* ------------------------------------------------------------------------
\* The awaits of runner_task after run_once has returned or raised.
Cooling == {"sleep_ok", "sleep_err"}

\* The model's cap on run_once calls has been reached.
Capped == TotalCalls >= MaxRuns

\* C1: a worker whose every run_once call so far has raised is, in the
\* cool-down after its K-th call, at failures = K, runs = K, successes = 0
\* and status "error/restarting" (the error-restarting status), K >= 1.
C1_FailuresCounted ==
  \A w \in Workers :
    (pc[w] = "sleep_err" /\ states[w].successes = 0) =>
      /\ calls[w] >= 1
      /\ states[w].failures = calls[w]
      /\ states[w].runs = calls[w]
      /\ states[w].status = "error/restarting"

\* C1 witness: a worker in the cool-down after MaxRuns failures in a row.
C1_Witness ==
  \E w \in Workers :
    /\ pc[w] = "sleep_err"
    /\ states[w].successes = 0
    /\ states[w].failures = MaxRuns

\* Number of close() calls on the resource named r in the log c.
Closes(c, r) == Cardinality({ i \in 1 .. Len(c) : c[i] = r })

\* C2 as stated: every finished run_once call has invoked the close of the
\* context and the close of the browser exactly once each.
C2_BothClosedOnce ==
  \A w \in Workers :
    (pc[w] \in Cooling /\ states[w].current_step # "pick url") =>
      /\ Closes(counts[w].closed, "context") = 1
      /\ Closes(counts[w].closed, "browser") = 1

\* C2 amended: the finally block of a run_once call that entered its try
\* block completes exactly once on every exit path, never before the call
\* leaves the try block (no close() is invoked inside the try block, and
\* the block is not complete while a close() is awaited); in it close() is
\* invoked once on the context if one was created and once on the browser
\* if one was launched, and on nothing that was not opened.
C2_TeardownOnce ==
  \A w \in Workers :
    LET c == counts[w] IN
    /\ pc[w] \in InTry => c.done = 0 /\ c.closed = << >>
    /\ pc[w] \in Closing => c.done = 0
    /\ pc[w] \in Leaving =>
         /\ Closes(c.closed, "context") <= c.contexts
         /\ Closes(c.closed, "browser") <= c.launched
    /\ pc[w] = "driver_stop" =>
         /\ c.done = 1
         /\ Closes(c.closed, "context") = c.contexts
         /\ Closes(c.closed, "browser") = c.launched
    /\ (pc[w] \in Cooling /\ states[w].current_step # "pick url") =>
         /\ c.done = 1
         /\ Closes(c.closed, "context") = c.contexts
         /\ Closes(c.closed, "browser") = c.launched
         /\ c.contexts <= 1 /\ c.launched <= 1

\* C2 witness: a call that left through a failed launch has run its
\* teardown once and closed nothing.
C2_Witness ==
  \E w \in Workers :
    /\ pc[w] = "sleep_err"
    /\ states[w].current_step = "launching"
    /\ counts[w].done = 1
    /\ counts[w].launched = 0
    /\ counts[w].closed = << >>

\* C3: whether or not the close() calls of the finally block raise, what
\* runner_task receives is the outcome of the body: the result list (with
\* the Done entry, whose detail is recorded) when the body returned, the
\* body's exception E (its text is recorded) when it raised.
C3_CloseErrorsSwallowed ==
  [][ \A w \in Workers :
        /\ (pc[w] \in Closing /\ pc'[w] # pc[w]) =>
              /\ pc'[w] \in Leaving
              /\ exc'[w] = exc[w]
              /\ states'[w] = states[w]
        /\ (pc[w] = "driver_stop" /\ pc'[w] # pc[w]) =>
              IF exc[w] = NoError
              THEN /\ pc'[w] = "sleep_ok"
                   /\ results'[w] = results[w]
                   /\ results[w][Len(results[w])] = Done
                   /\ states'[w].successes = states[w].successes + 1
                   /\ states'[w].failures = states[w].failures
                   /\ states'[w].last_detail = Done.detail
              ELSE /\ pc'[w] = "sleep_err"
                   /\ exc[w] \in Errors
                   /\ states'[w].failures = states[w].failures + 1
                   /\ states'[w].successes = states[w].successes
                   /\ states'[w].last_detail = Str(exc[w]) ]_vars

\* C3 witness: the body returned all ten steps, both close() calls of the
\* finally block raised (the context and the browser are still open), and
\* the call is about to return its list.
C3_Witness ==
  \E w \in Workers :
    /\ pc[w] = "driver_stop"
    /\ exc[w] = NoError
    /\ counts[w].closed = << "context", "browser" >>
    /\ browser[w] \in openBrowsers
    /\ context[w] \in openContexts
    /\ Len(results[w]) = NumSteps + 2

\* C26: when run_once returns normally, in that very step the worker's
\* runs and successes go up by one, failures stay, last_detail becomes the
\* detail of the last entry of the returned list and status becomes "idle",
\* and the worker is then in its pause; during the pause its record does
\* not change, and its next run_once call begins only from the top of the
\* loop, which it reaches only by the end of the pause.
C26_SuccessCountedThenPause ==
  /\ [][ \A w \in Workers :
          (pc[w] # "sleep_ok" /\ pc'[w] = "sleep_ok") =>
             /\ pc[w] = "driver_stop" /\ exc[w] = NoError
             /\ states'[w].runs = states[w].runs + 1
             /\ states'[w].successes = states[w].successes + 1
             /\ states'[w].failures = states[w].failures
             /\ Len(results'[w]) > 0
             /\ states'[w].last_detail =
                  results'[w][Len(results'[w])].detail
             /\ states'[w].status = "idle" ]_vars
  /\ [][ \A w \in Workers :
          pc[w] = "sleep_ok" =>
             /\ pc'[w] \in {"sleep_ok", "top"}
             /\ states'[w] = states[w]
             /\ calls'[w] = calls[w] ]_vars
  /\ [][ \A w \in Workers :
          calls'[w] # calls[w] =>
             /\ pc[w] = "top"
             /\ calls'[w] = calls[w] + 1 ]_vars
  /\ [](\A w \in Workers : pc[w] = "sleep_ok" => states[w].status = "idle")

\* C26 witness: a worker whose first call failed is in the pause after a
\* second call that returned, with the failure count as it was.
C26_Witness ==
  \E w \in Workers :
    /\ pc[w] = "sleep_ok"
    /\ states[w].runs = 2
    /\ states[w].successes = 1
    /\ states[w].failures = 1
    /\ states[w].status = "idle"
    /\ states[w].last_detail = results[w][Len(results[w])].detail

\* The run_once calls of worker w that are over.
Completed(w) == IF pc[w] \in Cooling \cup {"top"} THEN calls[w] ELSE calls[w] - 1

\* C31: at every await of every worker runs = successes + failures, and
\* runs is the number of run_once calls of the worker that are over; the
\* counters change only in the step in which a run_once call ends, which
\* adds one to runs and one to exactly one of successes and failures.
C31_RunsAreSuccessesPlusFailures ==
  /\ [](\A w \in Workers :
          /\ states[w].runs = states[w].successes + states[w].failures
          /\ states[w].runs = Completed(w))
  /\ [][ \A w \in Workers :
          (pc[w] \notin Cooling /\ pc'[w] \in Cooling) =>
             /\ states'[w].runs = states[w].runs + 1
             /\ \/ /\ states'[w].successes = states[w].successes + 1
                   /\ states'[w].failures = states[w].failures
                \/ /\ states'[w].successes = states[w].successes
                   /\ states'[w].failures = states[w].failures + 1 ]_vars
  /\ [][ \A w \in Workers :
          ( \/ states'[w].runs # states[w].runs
            \/ states'[w].successes # states[w].successes
            \/ states'[w].failures # states[w].failures ) =>
             (pc[w] \notin Cooling /\ pc'[w] \in Cooling) ]_vars

\* C31 witness: a worker in the cool-down after a call that raised, its
\* call before that having returned: two runs, one success, one failure.
C31_Witness ==
  \E w \in Workers :
    /\ pc[w] = "sleep_err"
    /\ states[w].runs = 2
    /\ states[w].successes = 1
    /\ states[w].failures = 1

\* C35: a run_once call makes its first launch attempt once, when the
\* driver has started; the second attempt is made only after the first
\* raised, with no browser held; after the second the call either has a
\* browser or goes through the finally block with the exception, never a
\* third attempt; a call whose two attempts raised holds no browser,
\* context or page, has attempted no step, closes nothing (the finally
\* block has no close to await and only appends Done), and ends as a
\* failure.
C35_AtMostTwoLaunches ==
  /\ [][ \A w \in Workers :
          /\ (pc'[w] = "launch" /\ pc[w] # "launch") => pc[w] = "playwright"
          /\ (pc'[w] = "relaunch" /\ pc[w] # "relaunch") =>
                /\ pc[w] = "launch"
                /\ browser'[w] = None
                /\ counts'[w].launched = 0
          /\ (pc[w] = "relaunch" /\ pc'[w] # "relaunch") =>
                \/ /\ pc'[w] = "session"
                   /\ browser'[w] # None
                   /\ counts'[w].launched = 1
                \/ /\ pc'[w] = "driver_stop"
                   /\ exc'[w] \in Errors
                   /\ browser'[w] = None /\ context'[w] = None
                   /\ page'[w] = None
                   /\ stepk'[w] = 0 /\ results'[w] = << Done >>
                   /\ counts'[w].launched = 0 /\ counts'[w].contexts = 0
                   /\ counts'[w].closed = << >>
          /\ (pc[w] = "driver_stop" /\ pc'[w] # "driver_stop"
                /\ counts[w].launched = 0) =>
                /\ pc'[w] = "sleep_err"
                /\ counts'[w].closed = << >>
                /\ counts'[w].contexts = 0
                /\ results'[w] = << Done >>
                /\ states'[w].failures = states[w].failures + 1
                /\ states'[w].current_step = "launching" ]_vars
  /\ [](\A w \in Workers : counts[w].launched <= 1)

\* C35 witness: both launch attempts of a call raised; the call is over,
\* counted as a failure, with nothing opened, no step outcome and no
\* close() call.
C35_Witness ==
  \E w \in Workers :
    /\ pc[w] = "sleep_err"
    /\ states[w].current_step = "launching"
    /\ states[w].failures = 1
    /\ counts[w].launched = 0
    /\ counts[w].contexts = 0
    /\ counts[w].closed = << >>
    /\ counts[w].done = 1
    /\ results[w] = << Done >>
    /\ stepk[w] = 0

\* The browsers (contexts) alive that worker w created.
OpenOf(S, w) == { h \in S : h[1] = w }

\* C4: a worker holds at most one open browser and one open context, none
\* outside run_once; every open browser or context is the one held by the
\* worker that created it; no two workers hold the same browser, context
\* or page; at most INSTANCES browsers are open.
C4_OneBrowserPerWorker ==
  /\ \A w \in Workers :
       /\ Cardinality(OpenOf(openBrowsers, w)) <= 1
       /\ Cardinality(OpenOf(openContexts, w)) <= 1
       /\ OpenOf(openBrowsers, w) \subseteq {browser[w]}
       /\ OpenOf(openContexts, w) \subseteq {context[w]}
       /\ pc[w] \in Cooling \cup {"top", "playwright"} =>
            /\ browser[w] = None /\ context[w] = None /\ page[w] = None
            /\ OpenOf(openBrowsers, w) = {}
            /\ OpenOf(openContexts, w) = {}
  /\ \A w \in Workers : \A v \in Workers \ {w} :
       /\ browser[w] # None => browser[w] # browser[v]
       /\ context[w] # None => context[w] # context[v]
       /\ page[w] # None => page[w] # page[v]
  /\ Cardinality(openBrowsers) <= INSTANCES

\* C4 witness: a worker has left a run in which it had launched a browser
\* and a close() raised, and holds nothing, while another worker has a
\* browser and a context open.
C4_Witness ==
  \E w \in Workers : \E v \in Workers \ {w} :
    /\ pc[w] = "sleep_err"
    /\ counts[w].launched = 1
    /\ counts[w].closed = << "context", "browser" >>
    /\ browser[v] \in openBrowsers
    /\ context[v] \in openContexts

\* C5: every failure of run_once is followed by a new run_once call of the
\* same worker (the loop goes on after the cool-down), up to the model's
\* cap on calls.
C5_FailureLeadsToNewRun ==
  \A w \in 1 .. MaxInstances :
    (w \in Workers /\ pc[w] = "sleep_err") ~>
      ((w \in Workers /\ pc[w] = "playwright") \/ Capped)

\* C5 witness: a worker that has failed before is starting a run_once call.
C5_Witness ==
  \E w \in Workers :
    /\ pc[w] = "playwright"
    /\ states[w].failures >= 1
    /\ states[w].last_detail \in { Str(e) : e \in Errors }

\* ------------------------------------------------------------------------
\* Properties of hard_click
\* ------------------------------------------------------------------------
HcDone == hc.pc \in {"returned", "raised"}

\* C6 as stated: a hard_click call has returned or raised no later than
\* MAX_FIND_SEC plus one POLL_MS after it began, whatever the page does.
C6_WithinBudgetPlusPoll ==
  HcDone => hc.now <= MAX_FIND_SEC * 1000 + POLL_MS

\* C7 as stated: on a page whose target stays attached but hidden for the
\* whole call, hard_click ends by returning, within its budget.
C7_HiddenDelivered ==
  (hc.kind = "hidden" /\ HcDone) =>
     /\ hc.pc = "returned"
     /\ hc.now <= MAX_FIND_SEC * 1000 + POLL_MS

Rank(s) == CHOOSE i \in 1 .. Len(Strategies) : Strategies[i] = s

Attempted(s) == \E k \in 1 .. Len(hc.tried) : hc.tried[k] = s

\* C20: on the element a hard_click call has found, the strategies are
\* attempted in the order forced click, unforced click, double click (only
\* if the call asked for it), pointer move/press/release, page-level
\* click, script dispatch; the first that succeeds ends the call, none is
\* attempted after a success, and a call that returned delivered exactly
\* one activation (any other call none).
C20_StrategiesInOrder ==
  /\ \A k \in 1 .. (Len(hc.tried) - 1) :
        Rank(hc.tried[k]) < Rank(hc.tried[k + 1])
  /\ Len(hc.tried) > 0 => hc.tried[1] = "click_force"
  /\ Len(hc.tried) > 1 => hc.tried[2] = "click"
  /\ Attempted("dblclick") => hc.double
  /\ (hc.double /\ Len(hc.tried) > 2) => hc.tried[3] = "dblclick"
  /\ (Attempted("evaluate") /\ hc.pc # "while") => Attempted("page_click")
  /\ hc.via # "" =>
       /\ hc.pc = "returned"
       /\ hc.tried[Len(hc.tried)] = hc.via
  /\ hc.delivered = (IF hc.pc = "returned" THEN 1 ELSE 0)

\* A call asked to double click that went through every strategy and
\* returned from the script dispatch.
C20_Witness ==
  /\ hc.pc = "returned"
  /\ hc.double
  /\ hc.via = "evaluate"
  /\ hc.tried = Strategies
  /\ hc.delivered = 1


\* C21: hard_click runs close_google_ads only in the step in which a
\* strategy succeeded, once, after the activation and the pause and before
\* it returns (the step takes the 800 ms of the pause and the 500 ms with
\* which the scan begins, at least); a call that returned ran it exactly
\* once, and a call that has not returned (still searching, or ended in a
\* raise) never ran it.
C21_AdsOnceOnSuccessOnly ==
  /\ [][ hc'.adsCalls # hc.adsCalls =>
           /\ hc'.adsCalls = hc.adsCalls + 1
           /\ hc'.delivered = hc.delivered + 1
           /\ hc'.via # ""
           /\ hc'.now >= hc.now + 800 + 500
           /\ hc'.pc = "returned" ]_vars
  /\ [](hc.pc = "returned" => hc.adsCalls = 1)
  /\ [](hc.pc # "returned" => hc.adsCalls = 0)

\* C21 witness: a call whose earlier strategies failed returned from the
\* pointer strategy with the ad scan run once.
C21_Witness ==
  /\ hc.pc = "returned"
  /\ hc.via = "mouse"
  /\ hc.last_err = ClickTimeout
  /\ hc.adsCalls = 1

\* The positions of hard_click from which the for loop over the selectors
\* goes on: the wait that returned None, the sleep of the handler of a
\* wait that raised, and the script dispatch that raised.
SearchEnds == { "wait", "backoff", "evaluate" }

\* C22: each round of the search begins with the primary selector
\* (hc.i = 1) and goes through the selectors one by one in list order; the
\* wait for a selector takes at most POLL_MS; the strategies are attempted
\* on the selector whose wait resolved; the search moves to the next
\* selector, or ends the round after the last, only when the wait for the
\* current one failed to resolve or when every strategy attempted on it
\* failed, the script dispatch last.
C22_SelectorsInOrder ==
  /\ [][ /\ (hc.pc = "while" /\ hc'.pc = "wait") => hc'.i = 1
         /\ (hc'.pc = "wait" /\ hc.pc # "while") =>
               /\ hc.pc \in SearchEnds
               /\ hc'.i = hc.i + 1
         /\ (hc'.pc = "sleep" /\ hc.pc # "sleep") =>
               /\ hc.pc \in SearchEnds
               /\ hc.i = hc.n
         /\ hc.pc = "wait" => hc'.now - hc.now <= POLL_MS
         /\ (hc.pc = "wait" /\ hc'.pc \in {"wait", "sleep"}) =>
               /\ hc'.last_err = hc.last_err
               /\ hc'.delivered = 0
         /\ (hc.pc = "wait" /\ hc'.pc = "backoff") =>
               /\ hc'.last_err \in {PollTimeout, OtherError}
               /\ hc'.i = hc.i
         /\ (hc.pc = "evaluate" /\ hc'.pc \in {"wait", "sleep"}) =>
               /\ Attempted("click_force")
               /\ Attempted("click")
               /\ Attempted("page_click")
               /\ hc'.last_err = OtherError
               /\ hc'.delivered = 0
         /\ hc.pc \notin {"while"} \cup SearchEnds => hc'.i = hc.i
         /\ hc'.pc = "scroll" => (hc.pc = "wait" /\ hc'.i = hc.i)
         /\ (hc'.pc = "click_force" /\ hc.pc # "click_force") =>
               (hc.pc = "scroll" /\ hc'.i = hc.i)
       ]_vars
  /\ [](hc.pc # "idle" => (hc.i <= hc.n /\ hc.n >= 1))
  /\ [](hc.pc \in {"wait", "scroll", "backoff"} => hc.tried = << >>)

\* C22 witness: in a call with two fallbacks the primary selector resolved
\* at once and every strategy on it failed (three click timeouts, then the
\* script dispatch), the wait for the first fallback timed out, and the
\* second fallback has resolved after a full poll interval.
C22_Witness ==
  /\ hc.n = 3
  /\ hc.i = 3
  /\ hc.pc = "scroll"
  /\ hc.last_err = PollTimeout
  /\ \E rounds \in LateRounds(MaxManySelectors) :
       hc.now = rounds * RoundMs(3) + 3 * MAX_WAIT + 3 * POLL_MS

\* The positions of hard_click at which a strategy is attempted.
StrategyPcs == { Strategies[i] : i \in 1 .. Len(Strategies) }

\* C33: hard_click raises only from the test of the while condition, when
\* the time is at or past the deadline, never earlier; when the wait for
\* a selector or a strategy raises, the error becomes last_err and the
\* call goes on searching (the next strategy, the next selector or the
\* next round) instead of raising.
C33_RaisesOnlyAtDeadline ==
  /\ [][ (hc'.pc = "raised" /\ hc.pc # "raised") =>
           /\ hc.pc = "while"
           /\ hc.now >= hc.deadline ]_vars
  /\ [][ (hc.pc = "wait" /\ hc'.pc = "backoff") =>
           /\ hc'.last_err \in {PollTimeout, OtherError}
           /\ hc'.last_err = hc'.observed
           /\ hc'.raised = None ]_vars
  /\ [][ (hc.pc \in {"wait", "backoff"} /\ hc'.pc # hc.pc) =>
           /\ hc'.pc \in {"wait", "scroll", "backoff", "sleep"}
           /\ hc'.raised = None ]_vars
  /\ [][ (hc.pc = "sleep" /\ hc'.pc # "sleep") =>
           (hc'.pc = "while" /\ hc'.raised = None) ]_vars
  /\ [][ (hc.pc \in StrategyPcs /\ hc'.pc \notin {hc.pc, "returned"}) =>
           /\ hc'.last_err \in {ClickTimeout, OtherError}
           /\ hc'.last_err = hc'.observed
           /\ hc'.pc \in {"wait", "sleep", "box", "mouse"} \cup StrategyPcs
           /\ hc'.raised = None ]_vars
  /\ [](hc.now < hc.deadline => (hc.pc # "raised" /\ hc.raised = None))

\* C33 witness: on a page whose target stays hidden every wait timed out,
\* and the call raised that timeout once its deadline had passed.
C33_Witness ==
  /\ hc.pc = "raised"
  /\ hc.kind = "hidden"
  /\ hc.raised = PollTimeout
  /\ hc.now >= hc.deadline

\* ------------------------------------------------------------------------
\* Properties of close_google_ads
\* ------------------------------------------------------------------------
\* C8 as stated: in the second of two calls in succession, with no new
\* overlay since the first began, no activation is attempted.
C8_SecondCallIdle ==
  (ads.call = 2 /\ ~ads.appeared) => ads.clicked = {}

\* C8 amended: in the second of two calls in succession, with no new
\* overlay since the first began, an activation is attempted only on an
\* element that the first call left visible; if it left none visible, the
\* second call attempts no activation.
C8_SecondCallClicksLeftovers ==
  (ads.call = 2 /\ ~ads.appeared) =>
     /\ ads.clicked \subseteq ads.left
     /\ (ads.left = {} => ads.clicked = {})
     /\ ads.pc \in {"click", "evaluate", "box", "mouse_click", "oclick"} =>
          ads.cur \in ads.left

\* C8 witness: the first call activated an element and left nothing
\* visible; the second call has returned without an activation.
C8_Witness ==
  /\ ads.call = 2
  /\ ads.pc = "returned"
  /\ ~ads.appeared
  /\ ads.prevActed
  /\ ads.left = {}
  /\ ads.clicked = {}

\* C9: close_google_ads never raises to its caller, whichever page
\* operations fail in the close-button scan and in the overlay scan.
C9_NeverRaises ==
  /\ ads.pc # "raised"
  /\ ads.raised = NoError

\* C9 witness: a call has returned in which page operations raised both
\* in the close-button scan and in the overlay scan.
C9_Witness ==
  /\ ads.pc = "returned"
  /\ ads.faults = {"close", "overlay"}

\* The awaits of one pass over the close selectors.
PassAwaits ==
  { "query", "visible", "click", "evaluate", "box", "mouse_click" }

\* C30: a call of close_google_ads makes at most max_attempts (3) passes
\* over the close selectors, also on a page where a new overlay appears
\* after every pass; a pass is begun only after a pass in which an
\* activation succeeded, and the scan stops after the first pass in which
\* none succeeded.
C30_AtMostThreePasses ==
  /\ [](ads.passes <= max_attempts)
  /\ [](ads.pc \in PassAwaits =>
          /\ ads.passes = ads.attempt
          /\ ads.passes < max_attempts)
  /\ [][ ads'.passes # ads.passes =>
           /\ ads.pc \in PassAwaits \cup {"returned"}
           /\ ads.pc \in PassAwaits => ads'.passes = ads.passes + 1
           /\ ads.pc = "returned" => ads'.passes = 0 ]_vars
  /\ [][ (ads'.pc \in PassAwaits /\ ads'.passes > 0
            /\ ads.pc \notin PassAwaits) =>
           /\ ads.pc = "pause" /\ ads.found_ad
           /\ ads'.passes = ads.passes ]_vars
  /\ [][ (ads'.passes = ads.passes + 1 /\ ~ads'.found_ad) =>
           ads'.pc \in {"oquery", "returned"} ]_vars
  /\ [](ads.pc = "pause" => ads.found_ad)

\* C30 witness: a new overlay appeared in the sleep after each of three
\* passes, each of which closed something, and the scan stopped after the
\* third with a close element still visible.
C30_Witness ==
  /\ ads.pc = "oquery"
  /\ ads.passes = max_attempts
  /\ ads.found_ad
  /\ ads.after = 1 .. max_attempts
  /\ VisibleOf(ads.dom, "close") # {}


\* ------------------------------------------------------------------------
\* Properties of random_profile
\* ------------------------------------------------------------------------
\* (vendor, renderer, version) of a WebGL fingerprint.
Triplet(webgl) ==
  << webgl.vendor, webgl.renderer, webgl.version >>

\* The archetype a profile was synthesised from: the fields random_profile
\* copies from the DeviceProfile it drew.
Archetype(profile) ==
  DeviceProfile(profile.user_agent, profile.is_mobile, profile.has_touch,
                profile.platform, profile.device_memory,
                profile.hardware_concurrency, profile.max_touch_points)

MobileTriplets == { Triplet(AppleGpu), Triplet(AdrenoGpu) }
DesktopTriplets ==
  { Triplet(MacGpu), Triplet(LinuxGpu) }
    \cup { Triplet(gpu_options[i]) : i \in 1 .. Len(gpu_options) }

\* The rendering-fingerprint triplets a synthesised identity carries: the
\* entry webgl_fingerprint and the one its stealth_script answers with.
TripletsOf(profile) ==
  { Triplet(profile.webgl_fingerprint),
    Triplet(profile.stealth_script.webgl_fp) }

\* C12: a profile whose mobile flag is set never carries a desktop triplet
\* (Mac, Linux, or one of the Windows list), and a profile whose mobile
\* flag is clear never carries a mobile triplet.
C12_TripletFollowsMobileFlag ==
  \A i \in 1 .. Len(fp.made) :
     LET p == fp.made[i] IN
       /\ p.is_mobile => TripletsOf(p) \cap DesktopTriplets = {}
       /\ ~p.is_mobile => TripletsOf(p) \cap MobileTriplets = {}


\* ------------------------------------------------------------------------
\* Properties of main's start
\* ------------------------------------------------------------------------
\* C13: once the prompt is answered the worker count is the integer typed
\* when the trimmed answer is an integer in [1, 50] and 1 for every other
\* answer, and there are exactly that many worker states, with ids 1..N.
C13_WorkerCountFromPrompt ==
  boot.pc = "running" =>
    LET parsed == ParseInt(Strip(boot.user_in))
        N == IF /\ ~boot.inputRaised
                /\ parsed.raised = NoError
                /\ parsed.value \in 1 .. 50
             THEN parsed.value ELSE 1
    IN /\ INSTANCES = N
       /\ DOMAIN states = 1 .. N
       /\ \A i \in 1 .. N : states[i].id = i
       /\ DOMAIN pc = 1 .. N

\* The answer "50" gave fifty workers.
C13_Witness ==
  /\ boot.pc = "running"
  /\ boot.user_in = << "5", "0" >>
  /\ ~boot.inputRaised
  /\ INSTANCES = 50
  /\ Len(states) = 50

\* A line that holds nothing but blanks.
Blank(ln) == \A i \in 1 .. Len(ln) : ln[i] \in Whitespace

NoUrlIn(file) ==
  file.raised # NoError \/ \A i \in 1 .. Len(file.lines) : Blank(file.lines[i])

\* C14: when urls.txt is missing, unreadable or holds no non-blank line,
\* the process exits with a non-zero status before the prompt and before
\* any worker or browser exists; the entries read are exactly the
\* non-blank lines.
C14_NoUrlsExitsBeforePrompt ==
  /\ (NoUrlIn(boot.file) /\ boot.pc # "read") =>
       /\ boot.pc = "exited"
       /\ boot.exit_status # 0
       /\ ~boot.prompted
       /\ states = << >> /\ pc = << >>
       /\ openBrowsers = {} /\ openContexts = {}
  /\ boot.pc \in { "prompt", "running" } =>
       /\ Len(boot.urls_list) =
            Cardinality({ i \in 1 .. Len(boot.file.lines) :
                            ~Blank(boot.file.lines[i]) })
       /\ \A i \in 1 .. Len(boot.urls_list) : ~Blank(boot.urls_list[i])

\* A file of two blank lines ended the process.
C14_Witness ==
  /\ boot.pc = "exited"
  /\ boot.exit_status = 1
  /\ boot.file.raised = NoError
  /\ Len(boot.file.lines) = 2
  /\ boot.file.lines[2] # << >>


\* ------------------------------------------------------------------------
\* Properties of wait_for_load
\* ------------------------------------------------------------------------
\* C19: wait_for_load never raises; whatever the wait for the document
\* did, the wait for network idle is attempted after it, and whatever that
\* wait did, the call returns.
C19_WaitForLoadNeverRaises ==
  /\ wl.pc # "raised"
  /\ wl.raised = NoError
  /\ wl.pc = "networkidle" =>
       /\ Len(wl.waits) = 1
       /\ wl.waits[1].state = "domcontentloaded"
  /\ wl.pc = "returned" =>
       /\ Len(wl.waits) = 2
       /\ wl.waits[1].state = "domcontentloaded"
       /\ wl.waits[2].state = "networkidle"

\* A call that returned after both of its waits had raised.
C19_Witness ==
  /\ wl.pc = "returned"
  /\ Len(wl.waits) = 2
  /\ wl.waits[1].raised = OtherError
  /\ wl.waits[2].raised = LoadTimeout(NetworkIdleMs)


\* ------------------------------------------------------------------------
\* Properties of the dashboard
\* ------------------------------------------------------------------------
Cell(c) == DigitsValue(c, 0)

Shown == DOMAIN live.rows

\* C17: a refresh of the dashboard leaves every field of every worker
\* state as it was and moves no worker; the table it hands over has one
\* row per worker state, its totals are the sums over its rows of the
\* run, success and failure counters, and its ongoing count is the number
\* of rows whose status is running.
C17_DashboardOnlyReads ==
  /\ [][ live' # live =>
           /\ states' = states /\ pc' = pc /\ total_done' = total_done
           /\ UNCHANGED supVars
           /\ DOMAIN live'.rows = DOMAIN states
           /\ \A w \in DOMAIN states :
                /\ live'.rows[w].status = states[w].status
                /\ Cell(live'.rows[w].runs) = states[w].runs ]_vars
  /\ [](/\ Cell(live.totals.runs) =
             SumCalls([w \in Shown |-> Cell(live.rows[w].runs)], Shown)
        /\ Cell(live.totals.ok) =
             SumCalls([w \in Shown |-> Cell(live.rows[w].ok)], Shown)
        /\ Cell(live.totals.fail) =
             SumCalls([w \in Shown |-> Cell(live.rows[w].fail)], Shown)
        /\ live.totals.ongoing =
             OngoingLabel \o Decimal(Cardinality(
               { w \in Shown : live.rows[w].status = "running" })))

\* A table of two rows, one restarting after a failed run and one idle
\* after a run that succeeded: two runs in all, one of each kind, none
\* ongoing.
C17_Witness ==
  /\ Len(live.rows) = 2
  /\ live.rows[1].status = "error/restarting"
  /\ live.rows[2].status = "idle"
  /\ Cell(live.totals.runs) = 2
  /\ Cell(live.totals.fail) = 1
  /\ Cell(live.totals.ok) = 1
  /\ live.totals.ongoing = OngoingLabel \o << "0" >>
  /\ states[1].failures = 1 /\ states[2].successes = 1


\* ------------------------------------------------------------------------
\* Properties of the worker loops taken together
\* ------------------------------------------------------------------------
\* Worker i takes the step.
Moves(i) == pc'[i] # pc[i] \/ states'[i] # states[i]

\* C18 as stated: a step of worker i changes the InstanceState of no other
\* worker, and no variable is written by two different loops: when a step
\* of worker i writes the counter total_done, no other worker has written
\* it before (a loop writes it exactly when it counts a success).
C18_NoSharedWrites ==
  [][ \A i \in Workers :
        Moves(i) =>
          /\ \A j \in Workers \ {i} : states'[j] = states[j]
          /\ total_done' # total_done =>
               \A j \in Workers \ {i} : states[j].successes = 0 ]_vars


\* ------------------------------------------------------------------------
\* Properties of the shutdown
\* ------------------------------------------------------------------------
\* C15 as stated: once the shutdown signal has arrived no worker loop
\* starts a new run_once call, and when the process exits every browser
\* instance and session that was open is closed.
C15_ShutdownStopsLoops ==
  /\ [][ sig.pc # "live" =>
           \A w \in Workers : ~(pc[w] = "top" /\ pc'[w] = "playwright") ]_vars
  /\ [](sig.pc = "exited" => openBrowsers = {} /\ openContexts = {})

\* C16 as stated: a worker loop is stopped only between two iterations; a
\* run_once call in flight is never aborted but runs to its own return or
\* failure.
C16_StoppedAtBoundaryOnly ==
  [][ \A w \in Workers :
        (pc[w] # "cancelled" /\ pc'[w] = "cancelled") =>
           pc[w] \in Boundary ]_vars

\* ------------------------------------------------------------------------
\* Properties of the worker states as the dashboard sees them
\* ------------------------------------------------------------------------
\* The awaits of a worker that lie inside a run_once call.
InRunOnce == InTry \cup Leaving \cup {"playwright"}

\* C32: at every await, a worker's status is "running" exactly when the
\* worker is inside a run_once call, and the Ongoing cell of the table that
\* make_dashboard builds from the states shows the number of run_once
\* calls in flight; in the pause after a success the status is "idle", in
\* the pause after a failure it is "error/restarting".
C32_RunningIffInRunOnce ==
  /\ \A w \in Workers :
       /\ states[w].status = "running" <=> pc[w] \in InRunOnce
       /\ pc[w] = "sleep_ok" => states[w].status = "idle"
       /\ pc[w] = "sleep_err" => states[w].status = "error/restarting"
  /\ make_dashboard(states).totals.ongoing =
       OngoingLabel
         \o Decimal(Cardinality({ w \in Workers : pc[w] \in InRunOnce }))

\* C32 witness: of two workers one is in a step of its run and the other
\* in the pause after a failure; the table shows one ongoing run.
C32_Witness ==
  \E w \in Workers : \E v \in Workers \ {w} :
    /\ pc[w] = "step"
    /\ states[w].status = "running"
    /\ pc[v] = "sleep_err"
    /\ states[v].status = "error/restarting"
    /\ make_dashboard(states).totals.ongoing = OngoingLabel \o << "1" >>

\* ------------------------------------------------------------------------
\* Properties of the finally block of run_once
\* ------------------------------------------------------------------------
\* The positions in the log of the close() calls on the resource what.
ClosePos(what) == { i \in 1 .. Len(td.log) : td.log[i].what = what }

\* C34: in the finally block the context close is attempted before the
\* browser close, never after it; a close is attempted only on a resource
\* that was opened, and at most once; and once the block is past its
\* second with block, the close of every opened resource has been
\* attempted: the browser close also when the context close raised.
C34_ContextCloseThenBrowserClose ==
  /\ \A i \in ClosePos("context") : \A j \in ClosePos("browser") : i < j
  /\ ClosePos("context") # {} => td.context # None
  /\ ClosePos("browser") # {} => td.browser # None
  /\ Cardinality(ClosePos("context")) <= 1
  /\ Cardinality(ClosePos("browser")) <= 1
  /\ td.pc \in {"done", "left"} =>
       /\ td.context # None => ClosePos("context") # {}
       /\ td.browser # None => ClosePos("browser") # {}
  /\ td.pc = "browser_close" =>
       (td.context # None => ClosePos("context") # {})

\* C34 witness: the context close raised, the browser close was attempted
\* after it and returned, and the block is over.
C34_Witness ==
  /\ td.pc = "left"
  /\ td.log = << CloseCall("context", TRUE), CloseCall("browser", FALSE) >>

\* The labels of the script steps.
StepLabels == { StepLabel(k) : k \in 1 .. NumSteps }

\* C36 as stated: in the cool-down after a run_once call that raised,
\* current_step names a script step, or is "launching" or "open url"; in
\* the pause after a success it is the sleep label.
C36_FailureShowsStepOrLaunch ==
  \A w \in Workers :
    /\ pc[w] = "sleep_err" =>
         states[w].current_step \in StepLabels \cup {"launching", "open url"}
    /\ pc[w] = "sleep_ok" => states[w].current_step = "sleep 1s"

\* C36 amended: when the click of step k raises, current_step names step
\* k and keeps that value through the finally block and the cool-down;
\* for a fault of the launches or of the session it is "launching", and
\* "pick url" when the Playwright driver failed to start, so that in the
\* cool-down it is a step label, "launching", "open url" or "pick url";
\* during the cool-down it does
\* not change, and it changes only when the next iteration begins, to
\* "pick url"; in the pause after a success it is "sleep 1s".
C36_FailureKeepsCurrentStep ==
  /\ [][ \A w \in Workers :
          /\ (pc[w] = "step" /\ pc'[w] \in Leaving /\ exc'[w] # NoError) =>
                /\ stepk[w] \in 1 .. NumSteps
                /\ states'[w].current_step = StepLabel(stepk[w])
          /\ (pc[w] \in {"relaunch", "session", "new_page", "evaluate"}
                /\ pc'[w] \in Leaving) =>
                states'[w].current_step = "launching"
          /\ (pc[w] = "playwright" /\ pc'[w] = "sleep_err") =>
                states'[w].current_step = "pick url"
          /\ ((pc[w] \in Leaving /\ exc[w] # NoError) \/ pc[w] = "sleep_err") =>
                states'[w].current_step = states[w].current_step
          /\ (pc[w] = "top" /\ pc'[w] # "top") =>
                states'[w].current_step = "pick url" ]_vars
  /\ [](\A w \in Workers :
          /\ pc[w] = "sleep_err" =>
               states[w].current_step
                  \in StepLabels \cup {"launching", "open url", "pick url"}
          /\ pc[w] = "sleep_ok" => states[w].current_step = "sleep 1s")

\* C36 witness: a worker in the cool-down after the click of a step
\* raised, still showing that step.
C36_Witness ==
  \E w \in Workers :
    /\ pc[w] = "sleep_err"
    /\ states[w].current_step \in StepLabels
    /\ states[w].status = "error/restarting"
    /\ Len(results[w]) >= 2

\* Number of Done entries in the list res.
Dones(res) == Cardinality({ i \in 1 .. Len(res) : res[i] = Done })

\* C37 as stated: the list of every run_once call that has exited holds
\* exactly one Done entry; after a normal return Done is its last element
\* and the list has 12 entries: Open URL, Step 1 to Step 10, Done.
C37_OneDoneOnEveryExit ==
  \A w \in Workers :
    /\ pc[w] \in Cooling => Dones(results[w]) = 1
    /\ pc[w] = "sleep_ok" =>
         /\ Len(results[w]) = 12
         /\ results[w] = FullResults(url[w]) \o << Done >>

\* C37 amended: a run_once call that entered its try block has appended
\* no Done entry before its close attempts are over, and exactly one once
\* it has exited, as the last element of the list, with every close that
\* was due attempted; after a normal return the list has 12 entries: Open
\* URL, Step 1 to Step 10, Done.  A call whose Playwright driver failed
\* to start has appended nothing.
C37_OneDoneAfterTeardown ==
  \A w \in Workers :
    /\ pc[w] \in InTry => Dones(results[w]) = 0 /\ counts[w].closed = << >>
    /\ pc[w] \in Closing => Dones(results[w]) = 0
    /\ pc[w] = "driver_stop" =>
         /\ Dones(results[w]) = 1
         /\ Len(counts[w].closed) = counts[w].contexts + counts[w].launched
    /\ (pc[w] \in Cooling /\ states[w].current_step # "pick url") =>
         /\ Dones(results[w]) = 1
         /\ results[w][Len(results[w])] = Done
         /\ counts[w].done = 1
         /\ Len(counts[w].closed) = counts[w].contexts + counts[w].launched
    /\ (pc[w] = "sleep_err" /\ states[w].current_step = "pick url") =>
         results[w] = << >>
    /\ pc[w] = "sleep_ok" =>
         /\ Len(results[w]) = 12
         /\ results[w] = FullResults(url[w]) \o << Done >>

\* C37 witness: a call that returned after step 10 and closed both
\* resources has handed over the 12 entries, Done last.
C37_Witness ==
  \E w \in Workers :
    /\ pc[w] = "sleep_ok"
    /\ counts[w].closed = << "context", "browser" >>
    /\ Len(results[w]) = 12
    /\ results[w][1].step = "Open URL"
    /\ results[w][11].step = "Step 10"
    /\ results[w][12] = Done

\* ------------------------------------------------------------------------
\* Properties of the script of run_once
\* ------------------------------------------------------------------------
Ev(i) == run.trace[i]

Events == 1 .. Len(run.trace)

\* The call op of step k is over, with outcome out, as the i-th event.
At(i, k, op, out) == i \in Events /\ Ev(i) = Event(k, op, out)

\* The positions in the result list of the outcomes named after step k.
Outs(k) ==
  { i \in 1 .. Len(run.results) : run.results[i].step = StepName(k) }

\* The run has ended in one of the two arms of runner_task.
RunLeft == run.pc \in {"returned", "raised"}

\* C23: the calls of a run_once call are made step by step in script
\* order; step k+1 begins (its label is set) only after the click, the
\* settle wait and the recording of step k are over, in that order; when
\* the click of a step raises, that is the last call of the script, and
\* the run reaches runner_task as a failure: failures goes up, successes
\* does not, the status is "error/restarting" and the text of the
\* exception is shown.
C23_StepsInScriptOrder ==
  /\ \A i \in Events : \A j \in Events : i < j => Ev(i).k <= Ev(j).k
  /\ \A i \in Events :
       (Ev(i).op = "label" /\ Ev(i).k >= 2) =>
          \E a \in Events : \E b \in Events : \E c \in Events :
             /\ a < b /\ b < c /\ c < i
             /\ At(a, Ev(i).k - 1, "hard_click", "ok")
             /\ At(b, Ev(i).k - 1, "wait_for_load", "ok")
             /\ At(c, Ev(i).k - 1, "append", "ok")
  /\ \A i \in Events :
       Ev(i).out = "raised" =>
          /\ i = Len(run.trace)
          /\ run.pc \in {"finally", "driver_stop", "raised", "hung"}
          /\ run.exc # NoError
  /\ (RunLeft /\ \E i \in Events : Ev(i).out = "raised") =>
        /\ run.pc = "raised"
        /\ run.state.failures = 1
        /\ run.state.successes = 0
        /\ run.state.runs = 1
        /\ run.state.status = "error/restarting"
        /\ run.state.last_detail = Str(run.exc)

\* C23 witness: the click of step 3 raised after steps 1 and 2 were
\* completed, and the run has reached the supervisor as a failure.
C23_Witness ==
  /\ run.pc = "raised"
  /\ At(Len(run.trace), 3, "hard_click", "raised")
  /\ run.state.failures = 1
  /\ run.state.current_step = StepLabel(3)

\* C24: the result list holds at most one outcome per script step, the
\* outcomes are in script order, the outcome of step k is in the list only
\* if the clicks of steps 1 .. k all returned, and once the recording of
\* step k is over the list holds exactly one outcome of step k.
C24_OneOutcomePerDeliveredStep ==
  /\ \A k \in 1 .. NumSteps : Cardinality(Outs(k)) <= 1
  /\ \A k \in 1 .. NumSteps :
       Outs(k) # {} =>
          \A m \in 1 .. k : \E i \in Events : At(i, m, "hard_click", "ok")
  /\ \A k \in 1 .. NumSteps :
       (\E i \in Events : At(i, k, "append", "ok")) =>
          Cardinality(Outs(k)) = 1
  /\ \A k \in 1 .. NumSteps : \A m \in 1 .. NumSteps :
       \A i \in Outs(k) : \A j \in Outs(m) : i < j => k < m
  /\ \A k \in 1 .. NumSteps :
       (\A i \in Events : ~At(i, k, "hard_click", "ok")) => Outs(k) = {}

\* C24 witness: the click of step 4 raised; the list the run leaves holds
\* the Open URL entry, one outcome for each of steps 1 to 3, and Done.
C24_Witness ==
  /\ run.pc = "raised"
  /\ At(Len(run.trace), 4, "hard_click", "raised")
  /\ Len(run.results) = 5
  /\ \A k \in 1 .. 3 : Cardinality(Outs(k)) = 1
  /\ Outs(4) = {}

\* In step k the click, then wait_for_load, then the recording took place.
SettledAfterClick(k) ==
  \E a \in Events : \E b \in Events : \E c \in Events :
     /\ a < b /\ b < c
     /\ At(a, k, "hard_click", "ok")
     /\ At(b, k, "wait_for_load", "ok")
     /\ At(c, k, "append", "ok")

\* C25 as stated: every one of the 10 steps whose outcome is recorded had
\* a wait_for_load call after its click and before the recording.
C25_EveryStepSettles ==
  \A k \in 1 .. NumSteps : Outs(k) # {} => SettledAfterClick(k)

\* C25 amended: each of steps 1 to 9 whose outcome is recorded had a
\* wait_for_load call after its click and before the recording; in step
\* 10 the wait_for_load call comes before the dwell and the click, and
\* between the click and the recording there is the one-second sleep only.
C25_StepsOneToNineSettle ==
  /\ \A k \in 1 .. (NumSteps - 1) : Outs(k) # {} => SettledAfterClick(k)
  /\ Outs(NumSteps) # {} =>
       \E a \in Events :
          /\ At(a, NumSteps, "wait_for_load", "ok")
          /\ At(a + 1, NumSteps, "sleep 5", "ok")
          /\ At(a + 2, NumSteps, "hard_click", "ok")
          /\ At(a + 3, NumSteps, "sleep 1", "ok")
          /\ At(a + 4, NumSteps, "append", "ok")
          /\ \A b \in Events :
               At(b, NumSteps, "wait_for_load", "ok") => b = a

\* C25 witness: a run that went through all ten steps and returned.
C25_Witness ==
  /\ run.pc = "returned"
  /\ \A k \in 1 .. NumSteps : Cardinality(Outs(k)) = 1
  /\ Len(run.results) = NumSteps + 2

\* C27: page.goto that raises does not end the run: the call after it is
\* wait_for_load, then the Open URL entry is recorded, then the ad scan,
\* then step 1 begins; no run leaves the script from page.goto.
C27_GotoFailureGoesOn ==
  /\ [][ (run.pc = "script" /\ CurrentOp(run) = "goto" /\ run' # run) =>
            /\ run'.pc = "script"
            /\ run'.exc = NoError
            /\ CurrentOp(run') = "wait_for_load" ]_vars
  /\ [](\A i \in Events :
          At(i, 0, "goto", "swallowed") =>
             /\ Len(run.trace) >= i + 1 => At(i + 1, 0, "wait_for_load", "ok")
             /\ Len(run.trace) >= i + 2 =>
                  /\ At(i + 2, 0, "append", "ok")
                  /\ run.results[1] = StepResult("Open URL", "OK", run.url)
             /\ Len(run.trace) >= i + 4 => At(i + 4, 1, "label", "ok"))
  /\ [](\A i \in Events : Ev(i).op = "goto" => Ev(i).out # "raised")

\* C27 witness: page.goto raised, and the run went through every step and
\* was counted as a success.
C27_Witness ==
  /\ run.pc = "returned"
  /\ \E i \in Events : At(i, 0, "goto", "swallowed")
  /\ run.state.successes = 1
  /\ Len(run.results) = NumSteps + 2

\* C28: in step 10 hard_click is called only after asyncio.sleep(5) has
\* ended: when the script is at that call, and whenever that call is over,
\* the end of the dwell is an earlier event of the step.
C28_DwellBeforeFinalClick ==
  ( \/ /\ run.pc \in {"script", "hung"}
       /\ run.k = NumSteps
       /\ CurrentOp(run) = "hard_click"
    \/ \E i \in Events : Ev(i).k = NumSteps /\ Ev(i).op = "hard_click" )
  => \E j \in Events :
        /\ At(j, NumSteps, "sleep 5", "ok")
        /\ \A i \in Events :
             (Ev(i).k = NumSteps /\ Ev(i).op = "hard_click") => j < i

\* C28 witness: the click of step 10 raised after the dwell.
C28_Witness ==
  /\ run.pc = "raised"
  /\ At(Len(run.trace), NumSteps, "hard_click", "raised")
  /\ \E j \in Events : At(j, NumSteps, "sleep 5", "ok")

\* C29 as stated: every run_once call terminates, returning or raising,
\* also when a browser call it awaits never completes.
C29_RunOnceTerminates ==
  (run.pc = "script") ~> RunLeft

====
